---- MODULE Spec2Model ----
(***************************************************************************)
(* A model of the runtime lifecycle manager of MyDeviceAI-Desktop:         *)
(*   - the Model Registry        (src/src/modelManager.ts)                 *)
(*   - the Server Supervisor     (src/src/llamaSetup.ts)                   *)
(*   - the Artifact Installer    (src/src/llamaSetup.ts)                   *)
(*                                                                         *)
(* Conventions                                                             *)
(*   - JavaScript numbers are tagged records (Num, NaN, PosInf, NegInf,    *)
(*     Undefined); temperature and topP are kept in hundredths (0.7 = 70). *)
(*   - A JavaScript null reference is NullId / NullPath / NullState / 0.   *)
(*   - A file is a record [st, doc]: absent, partial (being written) or    *)
(*     full.                                                               *)
(*   - An asynchronous function is cut at its awaits that wait for real    *)
(*     I/O; the code between two such awaits is one action.                *)
(*                                                                         *)
(* Specifications                                                          *)
(*   SpecReg       the registry operations, downloads, restarts            *)
(*   SpecPersist   writeJsonAtomic step by step, with crashes              *)
(*   SpecParams    updateModelParams on out-of-range, NaN, undefined       *)
(*   SpecSup       ensureLlamaServer, stopLlamaServer, exits, model switch *)
(*   SpecConflict  the supervisor with port-conflict restarts              *)
(*   SpecInst      installLatestLlama on a fresh profile                   *)
(*   SpecDisk      the installer with crashes and files removed            *)
(*   SpecBoot      the supervisor from application start, status queries   *)
(*   SpecHost      installLatestLlama on every host and release            *)
(*   SpecLog       a running server writes to a nearly full log buffer     *)
(*   SpecBridge    prompts over the P2P channel, answered from the server  *)
(*   SpecRedirect  downloads from a server that always redirects           *)
(*   SpecPorts     the supervisor, candidate port by candidate port        *)
(*   SpecArgs      the supervisor while models are selected and tuned      *)
(*   SpecTuned     port conflicts of a server with a tuned context window  *)
(*   SpecAuto      port-conflict restarts next to status queries           *)
(*   SpecFirstRun  calls that install llama.cpp, next to model switches    *)
(*   SpecShared    downloads of files with the same name                   *)
(***************************************************************************)
EXTENDS Integers, Sequences, FiniteSets, TLC

VARIABLES
    \* ---- Model Registry (modelManager.ts)
    cachedState,      \* let cachedState: ModelsState | null
    stateFile,        \* the file at MODELS_STATE_FILE (models.json)
    tmpStateFile,     \* the file at MODELS_STATE_FILE + '.tmp'
    pending,          \* documents the running handler still has to write
    wpc,              \* position inside writeJsonAtomic
    files,            \* the weight files under MODEL_DIR: path -> absent/partial/full
    dls,              \* the downloadHfModel calls in flight, in the order they started
    keptAbsent,       \* history: every updateModelParams call so far left the keys
                      \* absent from its argument at their stored values
    lastDownload,     \* history: when the last step of the registry was the return
                      \* of a downloadHfModel call, what it returned and the types
                      \* of the progress events the call emitted
    \* ---- Server Supervisor (llamaSetup.ts)
    llamaServerProcess,           \* 0 (null) or the subprocess recorded
    llamaServerPort,              \* 0 (null) or its port
    llamaServerCurrentModelPath,  \* NullPath or the model path recorded
    llamaServerStartTime,         \* 0 (null) or Date.now() at the spawn
    llamaLogBuffer,               \* the log entries, oldest first
    procs,            \* every subprocess spawned so far, indexed by spawn order
    tasks,            \* the asynchronous calls waiting at an await
    lastEnsure,       \* history: the most recent ensureLlamaServer call that returned
    quiet,            \* history: since that return the active model did not change,
                      \* no subprocess was killed or exited, no restart began
    stopped,          \* history: the last step was a stopLlamaServer call
    lastStatus,       \* history: what the most recent getLlamaServerStatus call returned
    \* ---- Artifact Installer (llamaSetup.ts)
    metadataFile,     \* the file at METADATA_FILE (install.json)
    binFiles,         \* the files that exist under INSTALL_DIR
    lastInstall,      \* history: the most recent installLatestLlama call that returned
    host,             \* process.platform and process.arch
    \* ---- P2P request bridge (renderer)
    prompts           \* the 'prompt' messages received, in order: each with the
                      \* position of its handlePromptRequest call and, as history,
                      \* what the call has done so far

regVars == <<cachedState, stateFile, tmpStateFile, pending, wpc, files, dls, keptAbsent,
             lastDownload>>

supVars == <<llamaServerProcess, llamaServerPort, llamaServerCurrentModelPath,
             llamaServerStartTime, llamaLogBuffer, procs, tasks, lastEnsure, quiet, stopped,
             lastStatus>>

instVars == <<metadataFile, binFiles, lastInstall, host>>

vars == <<regVars, supVars, instVars, prompts>>

(***************************************************************************)
(* Bounds of the model                                                     *)
(***************************************************************************)
MaxDownloads == 2
MaxPartialKeys == 1
\* subprocesses spawned in a run
MaxProcs == 2
\* ensureLlamaServer calls in a run
MaxCalls == 2
\* output lines of the subprocesses that the log buffer holds
MaxLog == 1
\* installLatestLlama calls that wait at the same time
MaxInstalls == 2
\* HTTP requests of one installLatestLlama call
MaxRequests == 3
\* assets of a release
MaxAssets == 2
\* output lines that a subprocess writes once its log buffer is long
MaxLines == 6
\* 'prompt' messages received
MaxPrompts == 2
\* chunks of one HTTP response body
MaxChunks == 1

(***************************************************************************)
(* JavaScript numbers                                                      *)
(***************************************************************************)
Num(n) == [t |-> "num", v |-> n]
NaN == [t |-> "nan", v |-> 0]
PosInf == [t |-> "pinf", v |-> 0]
NegInf == [t |-> "ninf", v |-> 0]
Undefined == [t |-> "undef", v |-> 0]

JsLeq(a, b) ==
    \/ a.t = "ninf"
    \/ b.t = "pinf"
    \/ (a.t = "num" /\ b.t = "num" /\ a.v <= b.v)

MathMax(a, b) ==
    IF a.t = "nan" \/ b.t = "nan" THEN NaN
    ELSE IF JsLeq(a, b) THEN b ELSE a

MathMin(a, b) ==
    IF a.t = "nan" \/ b.t = "nan" THEN NaN
    ELSE IF JsLeq(a, b) THEN a ELSE b

\* a ?? b
Coalesce(a, b) == IF a.t = "undef" THEN b ELSE a

\* JSON.stringify writes NaN and the infinities as null; JSON.parse reads null
JsonNumber(x) == IF x.t \in {"nan", "pinf", "ninf"} THEN Undefined ELSE x

(***************************************************************************)
(* Runtime parameters and their clamping                                   *)
(***************************************************************************)
ParamKeys == {"temperature", "topP", "topK", "maxTokens", "contextWindow", "gpuLayers"}

DEFAULT_PARAMS ==
    [temperature |-> Num(70), topP |-> Num(95), topK |-> Num(40),
     maxTokens |-> Num(1024), contextWindow |-> Num(8192), gpuLayers |-> Num(0)]

ParamMin ==
    [temperature |-> 0, topP |-> 0, topK |-> 0,
     maxTokens |-> 16, contextWindow |-> 512, gpuLayers |-> 0]

ParamMax ==
    [temperature |-> 200, topP |-> 100, topK |-> 2000,
     maxTokens |-> 32768, contextWindow |-> 131072, gpuLayers |-> 64]

ClampNoNaNCheck(num, min, max) == MathMin(Num(max), MathMax(Num(min), num))

clamp(num, min, max) ==
    IF num.t = "nan" THEN Num(min)
    ELSE MathMin(Num(max), MathMax(Num(min), num))

\* params.k, undefined when the object has no such key
Field(params, k) == IF k \in DOMAIN params THEN params[k] ELSE Undefined

normalizeParams(params) ==
    [k \in ParamKeys |->
        clamp(Coalesce(Field(params, k), DEFAULT_PARAMS[k]), ParamMin[k], ParamMax[k])]

\* { ...a, ...b }
Spread(a, b) ==
    [k \in (DOMAIN a) \cup (DOMAIN b) |-> IF k \in DOMAIN b THEN b[k] ELSE a[k]]


(***************************************************************************)
(* Paths, ids, files                                                       *)
(***************************************************************************)
NullId == <<>>
NullPath == <<>>
STATE_VERSION == 1
MODEL_DIR == "llama/models"
INSTALL_DIR == "llama/bin"
LLAMA_VERSION == "b7306"
LOG_BUFFER_SIZE == 1000
\* contextWindow: number = 8192
DEFAULT_CONTEXT == 8192

\* the candidates of pickAvailablePort
PORT_ATTEMPTS == 10
QWEN_FILE == "Qwen3-4B-Q4_K_M.gguf"

\* path.join(dir, name)
JoinPath(dir, name) == <<dir, name>>
\* destPath + '.download'
DownloadPath(p) == Append(p, ".download")

QwenPath == JoinPath(MODEL_DIR, QWEN_FILE)
\* 'Qwen/Qwen3-4B-Q4_K_M'
QwenId == <<"Qwen", "Qwen3-4B-Q4_K_M">>
\* `${repoId}/${fileName}`
HfId(repoId, fileName) == <<repoId, fileName>>

FileNames == {QWEN_FILE, "m.gguf"}
ModelPaths == {JoinPath(MODEL_DIR, f) : f \in FileNames}
AllPaths == ModelPaths \cup {DownloadPath(p) : p \in ModelPaths}
UnknownId == <<"nobody", "none.gguf">>

\* fs.existsSync(p), on the file system fs
existsOn(fs, p) == p # NullPath /\ fs[p] # "absent"

existsSync(p) == existsOn(files, p)

NullState ==
    [version |-> 0, models |-> <<>>, activeModelId |-> NullId, lastUsedModelId |-> NullId]

AbsentFile == [st |-> "absent", doc |-> NullState]
PartialFile(doc) == [st |-> "partial", doc |-> doc]
FullFile(doc) == [st |-> "full", doc |-> doc]

\* JSON.stringify(data, null, 2) followed by JSON.parse
JsonDocument(state) ==
    [state EXCEPT !.models =
        [i \in DOMAIN state.models |->
            [state.models[i] EXCEPT !.currentParams =
                [k \in DOMAIN @ |-> JsonNumber(@[k])]]]]

\* readJsonFile: null when the file is missing or does not parse
readJsonFile(f) == IF f.st = "full" THEN f.doc ELSE NullState

(***************************************************************************)
(* Registry: pure parts                                                    *)
(***************************************************************************)
IndexOf(models, id) ==
    IF \E i \in DOMAIN models : models[i].id = id
    THEN CHOOSE i \in DOMAIN models :
            models[i].id = id /\ \A j \in 1..(i - 1) : models[j].id # id
    ELSE 0

\* models.find((m) => m.id === id && m.installed) is defined
HasInstalled(models, id) ==
    \E i \in DOMAIN models : models[i].id = id /\ models[i].installed

AnyInstalledId(models) ==
    IF models # <<>> THEN models[1].id ELSE NullId

\* models.find((m) => m.installed)?.id ?? null
FirstInstalledId(models) ==
    IF \E i \in DOMAIN models : models[i].installed
    THEN models[CHOOSE i \in DOMAIN models :
            models[i].installed /\ \A j \in 1..(i - 1) : ~models[j].installed].id
    ELSE NullId

loadStateFromDisk(fs) ==
    LET existing == readJsonFile(stateFile) IN
    IF existing = NullState THEN NullState
    ELSE [version |-> existing.version,
          models |-> [i \in DOMAIN existing.models |->
              [existing.models[i] EXCEPT
                  !.currentParams = normalizeParams(@),
                  !.installed = @ /\ existsOn(fs, existing.models[i].filePath)]],
          activeModelId |-> existing.activeModelId,
          lastUsedModelId |-> existing.lastUsedModelId]

computeInitialState(fs) ==
    LET qwenExists == existsOn(fs, QwenPath)
        activeModelId == IF qwenExists THEN QwenId ELSE NullId
    IN [version |-> STATE_VERSION,
        models |-> << [id |-> QwenId,
                       source |-> "builtin",
                       filePath |-> QwenPath,
                       installed |-> qwenExists,
                       currentParams |-> normalizeParams(
                           [temperature |-> Num(60), topP |-> Num(90),
                            maxTokens |-> Num(1024), contextWindow |-> Num(8192)])] >>,
        activeModelId |-> activeModelId,
        lastUsedModelId |-> activeModelId]

\* persistState: the document that becomes cachedState and goes to disk
persistState(state) == [state EXCEPT !.version = STATE_VERSION]

\* a load that never sets an installed flag that was persisted as false
LoadKeepsFlagFalse(fs) ==
    IF cachedState # NullState THEN [state |-> cachedState, writes |-> <<>>]
    ELSE LET disk == loadStateFromDisk(fs) IN
         IF disk # NullState
         THEN LET models == [i \in DOMAIN disk.models |->
                      [disk.models[i] EXCEPT
                          !.installed = @,
                          !.currentParams = normalizeParams(@)]]
                  kept == IF disk.activeModelId # NullId
                             /\ ~HasInstalled(models, disk.activeModelId)
                          THEN NullId ELSE disk.activeModelId
                  activeModelId == IF kept = NullId THEN FirstInstalledId(models) ELSE kept
                  normalized ==
                      [version |-> STATE_VERSION,
                       models |-> models,
                       activeModelId |-> activeModelId,
                       lastUsedModelId |-> IF disk.lastUsedModelId = NullId
                                           THEN activeModelId ELSE disk.lastUsedModelId]
              IN [state |-> persistState(normalized), writes |-> <<persistState(normalized)>>]
         ELSE LET initial == computeInitialState(fs) IN
              [state |-> persistState(initial), writes |-> <<persistState(initial)>>]

\* ensureState, run on the file system fs: [state |-> the state it returns, writes |-> what it persisted]
ensureStateAfter(fs) ==
    IF cachedState # NullState THEN [state |-> cachedState, writes |-> <<>>]
    ELSE LET disk == loadStateFromDisk(fs) IN
         IF disk # NullState
         THEN LET models == [i \in DOMAIN disk.models |->
                      [disk.models[i] EXCEPT
                          !.installed = existsOn(fs, disk.models[i].filePath),
                          !.currentParams = normalizeParams(@)]]
                  kept == IF disk.activeModelId # NullId
                             /\ ~HasInstalled(models, disk.activeModelId)
                          THEN NullId ELSE disk.activeModelId
                  activeModelId == IF kept = NullId THEN FirstInstalledId(models) ELSE kept
                  normalized ==
                      [version |-> STATE_VERSION,
                       models |-> models,
                       activeModelId |-> activeModelId,
                       lastUsedModelId |-> IF disk.lastUsedModelId = NullId
                                           THEN activeModelId ELSE disk.lastUsedModelId]
              IN [state |-> persistState(normalized), writes |-> <<persistState(normalized)>>]
         ELSE LET initial == computeInitialState(fs) IN
              [state |-> persistState(initial), writes |-> <<persistState(initial)>>]

ensureState == ensureStateAfter(files)

\* an updateState that picks the active model anew every time
PicksActiveAnew(s) ==
    persistState([s EXCEPT !.activeModelId = FirstInstalledId(s.models)])

\* updateState, after the mutator returned s: enforce the invariant, persist
updateState(s) ==
    persistState(
        IF s.activeModelId # NullId /\ ~HasInstalled(s.models, s.activeModelId)
        THEN [s EXCEPT !.activeModelId = FirstInstalledId(s.models)]
        ELSE s)

(***************************************************************************)
(* writeJsonAtomic.  A handler is synchronous, so no other handler runs    *)
(* between its writes; only a crash of the application can fall between    *)
(* the write of the temp file and the rename.  With stepwise = FALSE the   *)
(* handler's writes are taken as done when it returns.                     *)
(***************************************************************************)
Last(s) == s[Len(s)]

\* no downloadHfModel call returned in the last step
NoDownload == [returned |-> FALSE, ok |-> FALSE, error |-> "", events |-> <<>>]

PersistsNothing(writes, stepwise) == UNCHANGED <<stateFile, tmpStateFile, pending, wpc>>

Persist(writes, stepwise) ==
    IF writes = <<>>
    THEN UNCHANGED <<stateFile, tmpStateFile, pending, wpc>>
    ELSE IF stepwise
         THEN pending' = writes /\ UNCHANGED <<stateFile, tmpStateFile, wpc>>
         ELSE /\ stateFile' = FullFile(JsonDocument(Last(writes)))
              /\ tmpStateFile' = AbsentFile
              /\ UNCHANGED <<pending, wpc>>

WriteInPlace ==
    /\ pending # <<>> /\ wpc = "idle"
    /\ stateFile' = PartialFile(JsonDocument(Head(pending)))
    /\ wpc' = "writing"
    /\ UNCHANGED <<cachedState, tmpStateFile, pending, files, dls, keptAbsent>>
    /\ lastDownload' = NoDownload
    /\ UNCHANGED prompts

\* fs.writeFileSync(tmp, ...) has created or truncated the temp file
WriteTmpBegin ==
    /\ pending # <<>> /\ wpc = "idle"
    /\ tmpStateFile' = PartialFile(JsonDocument(Head(pending)))
    /\ wpc' = "writing"
    /\ UNCHANGED <<cachedState, stateFile, pending, files, dls, keptAbsent>>
    /\ lastDownload' = NoDownload
    /\ UNCHANGED prompts

\* fs.writeFileSync(tmp, ...) returned
WriteTmpEnd ==
    /\ wpc = "writing"
    /\ tmpStateFile' = FullFile(JsonDocument(Head(pending)))
    /\ wpc' = "written"
    /\ UNCHANGED <<cachedState, stateFile, pending, files, dls, keptAbsent>>
    /\ lastDownload' = NoDownload
    /\ UNCHANGED prompts

\* fs.renameSync(tmp, file)
RenameTmp ==
    /\ wpc = "written"
    /\ stateFile' = tmpStateFile
    /\ tmpStateFile' = AbsentFile
    /\ pending' = Tail(pending)
    /\ wpc' = "idle"
    /\ UNCHANGED <<cachedState, files, dls, keptAbsent>>
    /\ lastDownload' = NoDownload
    /\ UNCHANGED prompts

Idle == pending = <<>>

(***************************************************************************)
(* Registry: the exported operations                                       *)
(***************************************************************************)

\* listModels / getModelsState / getActiveModel: the first call loads the state
ListModels(stepwise) ==
    /\ Idle
    /\ cachedState = NullState
    /\ LET es == ensureState IN
        /\ cachedState' = es.state
        /\ Persist(es.writes, stepwise)
    /\ UNCHANGED <<files, dls, keptAbsent>>
    /\ lastDownload' = NoDownload
    /\ UNCHANGED prompts

\* a result that does not look at the installed flag
ResultIgnoresInstalled(s, id) ==
    IF IndexOf(s.models, id) = 0
    THEN [ok |-> FALSE, activeModelId |-> NullId, error |-> "Model not found"]
    ELSE [ok |-> TRUE, activeModelId |-> id, error |-> ""]

\* the value setActiveModel(id) returns, with s the state ensureState gave: the
\* mutator's throw is caught and its message returned
setActiveModelResult(s, id) ==
    LET i == IndexOf(s.models, id) IN
    IF i = 0
    THEN [ok |-> FALSE, activeModelId |-> NullId, error |-> "Model not found"]
    ELSE IF ~s.models[i].installed
    THEN [ok |-> FALSE, activeModelId |-> NullId, error |-> "Model not installed"]
    ELSE [ok |-> TRUE,
          activeModelId |-> updateState([s EXCEPT !.activeModelId = id,
                                                  !.lastUsedModelId = id]).activeModelId,
          error |-> ""]

\* a mutator that assigns before it checks
AssignsBeforeCheck(id, stepwise) ==
    /\ Idle
    /\ LET es == ensureState
           next == [es.state EXCEPT !.activeModelId = id, !.lastUsedModelId = id]
       IN /\ cachedState' = next
          /\ Persist(es.writes, stepwise)
    /\ lastDownload' = NoDownload
    /\ UNCHANGED <<files, dls, keptAbsent>>
    /\ UNCHANGED prompts

SetActiveModel(id, stepwise) ==
    /\ Idle
    /\ LET es == ensureState
           s == es.state
           i == IndexOf(s.models, id)
       IN IF i = 0 \/ ~s.models[i].installed
          THEN \* the mutator throws: updateState neither heals nor persists
               /\ cachedState' = s
               /\ Persist(es.writes, stepwise)
          ELSE LET next == updateState([s EXCEPT !.activeModelId = id,
                                                 !.lastUsedModelId = id])
               IN /\ cachedState' = next
                  /\ Persist(Append(es.writes, next), stepwise)
    /\ UNCHANGED <<files, dls, keptAbsent>>
    /\ lastDownload' = NoDownload
    /\ UNCHANGED prompts

UpdateModelParams(id, params, stepwise) ==
    /\ Idle
    /\ LET es == ensureState
           s == es.state
           i == IndexOf(s.models, id)
       IN IF i = 0
          THEN /\ cachedState' = s
               /\ Persist(es.writes, stepwise)
               /\ UNCHANGED keptAbsent
          ELSE LET old == s.models[i].currentParams
                   new == normalizeParams(Spread(old, params))
                   next == updateState([s EXCEPT !.models[i].currentParams = new])
               IN /\ cachedState' = next
                  /\ Persist(Append(es.writes, next), stepwise)
                  /\ keptAbsent' = (keptAbsent /\ \A k \in ParamKeys \ DOMAIN params :
                                                        new[k] = old[k])
    /\ UNCHANGED <<files, dls>>
    /\ lastDownload' = NoDownload
    /\ UNCHANGED prompts

(***************************************************************************)
(* downloadHfModel.  downloadFile awaits the network: the request, the     *)
(* response and the end of the stream are separate events.  The write      *)
(* stream of a download stays bound to the file it opened, wherever that   *)
(* file is linked afterwards: `at` is "tmp" while it is at tmpPath, "dest" *)
(* once a rename moved it to destPath, "gone" once it is unlinked or       *)
(* replaced.  `clobbered`: a later createWriteStream on the same path      *)
(* truncated the file, so what this stream had written before is lost.     *)
(* A file is "full" when the stream that opened it last has ended.         *)
(***************************************************************************)
RemoveAt(seq, d) == [i \in 1..(Len(seq) - 1) |-> IF i < d THEN seq[i] ELSE seq[i + 1]]

\* the streams of dls, other than d, that write into the file linked at `at` for the
\* weight file fileName
Writers(d, fileName, at) ==
    {e \in DOMAIN dls \ {d} : dls[e].pc = "stream" /\ dls[e].fileName = fileName
                                                   /\ dls[e].at = at}

\* the catch of downloadHfModel: an error event, then { ok: false, error }
DownloadCaught(error, events) ==
    [returned |-> TRUE, ok |-> FALSE, error |-> error, events |-> events \o <<"error">>]

\* downloadHfModel up to the first await inside downloadFile
DownloadBegin(repoId, fileName) ==
    /\ Idle
    /\ Len(dls) < MaxDownloads
    /\ IF repoId = "" \/ fileName = ""
       THEN /\ lastDownload' = DownloadCaught("repoId and fileName are required", <<>>)
            /\ UNCHANGED dls
       ELSE /\ dls' = Append(dls, [repoId |-> repoId, fileName |-> fileName,
                                   pc |-> "request", at |-> "gone", clobbered |-> FALSE])
            /\ lastDownload' = NoDownload
    /\ UNCHANGED <<cachedState, stateFile, tmpStateFile, pending, wpc, files, keptAbsent>>
    /\ UNCHANGED prompts

\* a 2xx response: fs.createWriteStream(tmpPath) creates the file, or truncates the
\* one that is there
DownloadResponse(d) ==
    /\ Idle
    /\ dls[d].pc = "request"
    /\ files' = [files EXCEPT
                    ![DownloadPath(JoinPath(MODEL_DIR, dls[d].fileName))] = "partial"]
    /\ dls' = [e \in DOMAIN dls |->
                  IF e = d THEN [dls[e] EXCEPT !.pc = "stream", !.at = "tmp"]
                  ELSE IF e \in Writers(d, dls[d].fileName, "tmp")
                  THEN [dls[e] EXCEPT !.clobbered = TRUE]
                  ELSE dls[e]]
    /\ lastDownload' = NoDownload
    /\ UNCHANGED <<cachedState, stateFile, tmpStateFile, pending, wpc, keptAbsent>>
    /\ UNCHANGED prompts

\* a non-2xx response, a network error, too many redirects (nothing written yet),
\* or an error of the response stream (whatever is at tmpPath is unlinked)
DownloadFail(d) ==
    /\ Idle
    /\ files' = IF dls[d].pc = "stream"
                THEN [files EXCEPT
                        ![DownloadPath(JoinPath(MODEL_DIR, dls[d].fileName))] = "absent"]
                ELSE files
    /\ dls' = RemoveAt([e \in DOMAIN dls |->
                            IF dls[d].pc = "stream" /\ e \in Writers(d, dls[d].fileName, "tmp")
                            THEN [dls[e] EXCEPT !.at = "gone"]
                            ELSE dls[e]], d)
    /\ lastDownload' = DownloadCaught("download failed",
                                      IF dls[d].pc = "stream"
                                      THEN <<"download-start", "download-progress">>
                                      ELSE <<>>)
    /\ UNCHANGED <<cachedState, stateFile, tmpStateFile, pending, wpc, keptAbsent>>
    /\ UNCHANGED prompts

\* the mutator downloadHfModel hands to updateState
Upsert(s, id, destPath) ==
    LET i == IndexOf(s.models, id) IN
    IF i # 0
    THEN [s EXCEPT !.models[i] =
            [@ EXCEPT !.source = "huggingface",
                      !.filePath = destPath,
                      !.installed = TRUE,
                      !.currentParams = normalizeParams(@)]]
    ELSE LET model == [id |-> id,
                       source |-> "huggingface",
                       filePath |-> destPath,
                       installed |-> TRUE,
                       currentParams |-> DEFAULT_PARAMS]
             pushed == [s EXCEPT !.models = Append(@, model)]
         IN IF s.activeModelId = NullId
            THEN [pushed EXCEPT !.activeModelId = id, !.lastUsedModelId = id]
            ELSE pushed

\* the stream ended: file.end, resolve, renameSync(tmpPath, destPath), updateState
DownloadEnd(d, stepwise) ==
    /\ Idle
    /\ dls[d].pc = "stream"
    /\ LET destPath == JoinPath(MODEL_DIR, dls[d].fileName)
           tmpPath == DownloadPath(destPath)
           id == HfId(dls[d].repoId, dls[d].fileName)
           \* file.end: the stream that opened the file last has written all of it
           flushed == IF dls[d].at = "dest" /\ ~dls[d].clobbered /\ files[destPath] # "absent"
                      THEN [files EXCEPT ![destPath] = "full"]
                      ELSE files
           \* renameSync moves whatever file is at tmpPath
           moved == [flushed EXCEPT ![tmpPath] = "absent",
                                    ![destPath] = IF dls[d].at = "tmp" /\ ~dls[d].clobbered
                                                  THEN "full" ELSE "partial"]
       IN IF files[tmpPath] = "absent"
          THEN \* renameSync throws ENOENT: caught, { ok: false }
               /\ files' = flushed
               /\ dls' = RemoveAt(dls, d)
               /\ lastDownload' = DownloadCaught("ENOENT",
                       <<"download-start", "download-progress", "download-complete">>)
               /\ UNCHANGED <<cachedState, stateFile, tmpStateFile, pending, wpc>>
          ELSE LET es == ensureStateAfter(moved)
                   next == updateState(Upsert(es.state, id, destPath))
               IN /\ files' = moved
                  /\ cachedState' = next
                  /\ Persist(Append(es.writes, next), stepwise)
                  /\ lastDownload' =
                         [returned |-> TRUE, ok |-> TRUE, error |-> "",
                          events |-> <<"download-start", "download-progress",
                                       "download-complete">>]
                  /\ dls' = RemoveAt([e \in DOMAIN dls |->
                                IF e \in Writers(d, dls[d].fileName, "tmp")
                                THEN [dls[e] EXCEPT !.at = "dest"]
                                ELSE IF e \in Writers(d, dls[d].fileName, "dest")
                                THEN [dls[e] EXCEPT !.at = "gone"]
                                ELSE dls[e]], d)
    /\ UNCHANGED keptAbsent
    /\ UNCHANGED prompts

(***************************************************************************)
(* The environment                                                         *)
(***************************************************************************)
\* the application quits or crashes and is started again: memory is lost, files stay
\* (taken where the supervisor and the installer are idle)
Restart ==
    /\ cachedState # NullState \/ pending # <<>> \/ dls # <<>>
    /\ cachedState' = NullState
    /\ pending' = <<>>
    /\ wpc' = "idle"
    /\ dls' = <<>>
    /\ lastDownload' = NoDownload
    /\ UNCHANGED <<stateFile, tmpStateFile, files, keptAbsent>>
    /\ UNCHANGED prompts

\* the user removes a weight file behind the application's back
ExternalDelete(p) ==
    /\ Idle
    /\ files[p] = "full"
    /\ files' = [files EXCEPT ![p] = "absent"]
    /\ dls' = [e \in DOMAIN dls |->
                  IF dls[e].at = "dest" /\ JoinPath(MODEL_DIR, dls[e].fileName) = p
                  THEN [dls[e] EXCEPT !.at = "gone"] ELSE dls[e]]
    /\ UNCHANGED <<cachedState, stateFile, tmpStateFile, pending, wpc, keptAbsent>>
    /\ lastDownload' = NoDownload
    /\ UNCHANGED prompts

\* downloadModelIfNeeded of the supervisor moved the default weight file into
\* place, as the registry sees it: the file is there, the registry is not told
DefaultModelDownloaded ==
    /\ Idle
    /\ files[QwenPath] = "absent"
    /\ files' = [files EXCEPT ![QwenPath] = "full"]
    /\ UNCHANGED <<cachedState, stateFile, tmpStateFile, pending, wpc, dls, keptAbsent>>
    /\ lastDownload' = NoDownload
    /\ UNCHANGED prompts

(***************************************************************************)
(* Artifact Installer: the host and the names of release assets.  A name   *)
(* is the tuple of its parts between the hyphens, followed by its          *)
(* extension: llama-b7306-bin-macos-arm64.zip is                           *)
(* <<"llama", "b7306", "bin", "macos", "arm64", "zip">>.                   *)
(***************************************************************************)
\* the values of process.platform and process.arch
Hosts == [platform : {"win32", "linux", "darwin", "freebsd"},
          arch : {"x64", "arm64", "ia32"}]

LinuxX64 == [platform |-> "linux", arch |-> "x64"]

\* "" is null
getPlatform(h) ==
    CASE h.platform = "win32" -> "windows"
      [] h.platform = "linux" -> "linux"
      [] h.platform = "darwin" -> "macos"
      [] OTHER -> ""

getArch(h) ==
    CASE h.arch = "x64" -> "x64"
      [] h.arch = "arm64" -> "arm64"
      [] OTHER -> ""

UbuntuAsset == <<"llama", "b7306", "bin", "ubuntu", "vulkan", "x64", "zip">>

\* names that a release carries, or could carry
AssetNames ==
    {UbuntuAsset,
     <<"LLAMA", "B7306", "BIN", "UBUNTU", "VULKAN", "X64", "ZIP">>,
     <<"llama", "b7306", "bin", "ubuntu", "vulkan", "x64", "tar.gz">>,
     <<"llama", "b7306", "bin", "win", "vulkan", "x64", "zip">>,
     <<"llama", "b7306", "bin", "macos", "arm64", "zip">>}

\* String.prototype.toLowerCase, on the parts that occur in AssetNames
toLowerCase(w) ==
    CASE w = "LLAMA" -> "llama"
      [] w = "B7306" -> "b7306"
      [] w = "BIN" -> "bin"
      [] w = "UBUNTU" -> "ubuntu"
      [] w = "VULKAN" -> "vulkan"
      [] w = "X64" -> "x64"
      [] w = "ZIP" -> "zip"
      [] OTHER -> w

\* lower.endsWith('.zip')
EndsWithZip(name) == toLowerCase(name[Len(name)]) = "zip"

\* lower.includes('-' + the parts of token joined by hyphens)
Includes(name, token) ==
    \E i \in 2..(Len(name) - Len(token)) :
        \A j \in 1..Len(token) : toLowerCase(name[i + j - 1]) = token[j]

\* the predicate that pickAssetNamePattern(platform, arch) returns, applied to name
pickAssetNamePattern(platform, arch, name) ==
    CASE platform = "windows" ->
             arch = "x64" /\ EndsWithZip(name) /\ Includes(name, <<"win", "vulkan", "x64">>)
      [] platform = "linux" ->
             arch = "x64" /\ EndsWithZip(name) /\ Includes(name, <<"ubuntu", "vulkan", "x64">>)
      [] platform = "macos" ->
             arch = "arm64" /\ EndsWithZip(name) /\ Includes(name, <<"macos", "arm64">>)
      [] OTHER -> FALSE

\* the last of the candidates
PickLastAsset(candidateAssets) == candidateAssets[Len(candidateAssets)]

\* candidateAssets[0]
PickAsset(candidateAssets) == candidateAssets[1]

(***************************************************************************)
(* Artifact Installer: the install metadata                                *)
(***************************************************************************)
NoMetadata == [version |-> "", binaryPath |-> NullPath]
NotInstalled == [installed |-> FALSE, version |-> "", binaryPath |-> NullPath]

\* fs.readFileSync + JSON.parse of METADATA_FILE, then the existence of the binary
readInstallMetadata ==
    IF /\ metadataFile.st = "full"
       /\ metadataFile.doc.binaryPath # NullPath
       /\ metadataFile.doc.binaryPath \in binFiles
    THEN [installed |-> TRUE,
          version |-> metadataFile.doc.version,
          binaryPath |-> metadataFile.doc.binaryPath]
    ELSE NotInstalled

\* the status taken from whatever the metadata file holds
StatusWithoutChecks ==
    [installed |-> metadataFile.st # "absent",
     version |-> metadataFile.doc.version,
     binaryPath |-> metadataFile.doc.binaryPath]

\* a status that never reports an install
StatusNeverInstalled == NotInstalled

getLlamaInstallStatus ==
    LET status == readInstallMetadata
    IN IF status.installed /\ status.binaryPath # NullPath /\ status.binaryPath \in binFiles
       THEN status
       ELSE NotInstalled

(***************************************************************************)
(* Server Supervisor.  A subprocess is a record of procs: the port and     *)
(* model of its command line, whether it is alive, was sent a kill signal  *)
(* or has exited (its exit notification was handled), the kill() calls     *)
(* made on it, and the function that spawned it.                           *)
(***************************************************************************)
\* of the candidates 10000 + Math.floor(Math.random() * 50000), the least and the
\* greatest
Ports == {10000, 59999}

\* Date.now(), as a logical clock that advances with every spawn
Now == Len(procs) + 1

\* x || d
AlwaysDefault(x, d) == d

OrElse(x, d) == IF x.t \in {"nan", "undef"} \/ (x.t = "num" /\ x.v = 0) THEN d ELSE x

\* state.models.find((m) => m.id === state.activeModelId) || null, as an index
getActiveModel(s) ==
    IF s.activeModelId = NullId THEN 0 ELSE IndexOf(s.models, s.activeModelId)

\* proc.kill(): a signal is sent unless the call throws
Kill(ps, p, throws) ==
    [ps EXCEPT ![p] = [@ EXCEPT !.kills = @ + 1,
                                !.st = IF throws \/ @ = "exited" THEN @ ELSE "killed"]]

NoEnsure ==
    [n |-> 0, ok |-> FALSE, port |-> 0, hadProc |-> 0, hadPath |-> NullPath,
     modelPath |-> NullPath, overlapped |-> FALSE, spawns |-> 0, spawned |-> 0,
     pathAfter |-> NullPath, rejected |-> FALSE]

\* the module variables of the supervisor, as one record
Sup ==
    [proc |-> llamaServerProcess, port |-> llamaServerPort,
     path |-> llamaServerCurrentModelPath, time |-> llamaServerStartTime,
     log |-> llamaLogBuffer, procs |-> procs]

SetSup(s) ==
    /\ llamaServerProcess' = s.proc
    /\ llamaServerPort' = s.port
    /\ llamaServerCurrentModelPath' = s.path
    /\ llamaServerStartTime' = s.time
    /\ llamaLogBuffer' = s.log
    /\ procs' = s.procs

\* the record of an asynchronous call that waits at an await
Task(kind, pc, binaryPath, modelPath, ctx, from, others) ==
    [kind |-> kind, pc |-> pc, binaryPath |-> binaryPath, modelPath |-> modelPath,
     ctx |-> ctx, from |-> from,
     hadProc |-> llamaServerProcess, hadPath |-> llamaServerCurrentModelPath,
     nprocs |-> Len(procs), overlapped |-> others # <<>>,
     reqs |-> 0, tag |-> "", asset |-> <<>>,
     \* the url argument of downloadFile: 0 the location the download began with, 1 the
     \* location that a redirect from there names (a redirect from it names 0 again)
     url |-> 0,
     \* the candidates of pickAvailablePort found unavailable, where they are told apart
     probes |-> 0,
     \* history: the types of the progress events the call has emitted
     events |-> <<>>,
     \* history: the status that the last installLatestLlama call returned, when it
     \* was a success whose binary and metadata are still on disk
     prev |-> IF lastInstall.status.installed /\ getLlamaInstallStatus = lastInstall.status
              THEN lastInstall.status ELSE NotInstalled]

Overlap(ts) == [i \in DOMAIN ts |-> [ts[i] EXCEPT !.overlapped = TRUE]]

\* every call that waits may still spawn one subprocess
Room == Len(procs) + Len(tasks) < MaxProcs

\* the model path that ensureLlamaServer resolves from the registry in memory
ActivePath ==
    LET i == getActiveModel(cachedState)
    IN IF i # 0 /\ cachedState.models[i].installed /\ cachedState.models[i].filePath # NullPath
       THEN cachedState.models[i].filePath
       ELSE QwenPath

\* the return of the ensureLlamaServer call c, recorded in lastEnsure; the calls
\* `others` still wait.  quiet: the call returned a server, alone, for the model that
\* is still the active one
Return(c, others, ok, s) ==
    /\ lastEnsure' =
           [n |-> lastEnsure.n + 1, ok |-> ok, port |-> IF ok THEN s.port ELSE 0,
            hadProc |-> c.hadProc, hadPath |-> c.hadPath, modelPath |-> c.modelPath,
            overlapped |-> c.overlapped \/ others # <<>>,
            spawns |-> Len(s.procs) - c.nprocs,
            spawned |-> IF Len(s.procs) > Len(procs) THEN Len(s.procs) ELSE 0,
            pathAfter |-> s.path, rejected |-> FALSE]
    /\ quiet' = (ok /\ others = <<>> /\ (c.pc = "begin" \/ ActivePath = c.modelPath))
    /\ tasks' = others
    /\ SetSup(s)

\* the promise of the ensureLlamaServer call c rejects: an await outside its try threw
Reject(c, others) ==
    /\ lastEnsure' =
           [n |-> lastEnsure.n + 1, ok |-> FALSE, port |-> 0,
            hadProc |-> c.hadProc, hadPath |-> c.hadPath, modelPath |-> c.modelPath,
            overlapped |-> c.overlapped \/ others # <<>>,
            spawns |-> Len(procs) - c.nprocs, spawned |-> 0,
            pathAfter |-> llamaServerCurrentModelPath, rejected |-> TRUE]
    /\ quiet' = FALSE
    /\ tasks' = others
    /\ SetSup(Sup)

\* the call c goes on waiting, at pc
Wait(c, others, s) ==
    /\ tasks' = Append(others, c)
    /\ SetSup(s)
    /\ UNCHANGED <<lastEnsure, quiet>>

\* stopLlamaServer
stopLlamaServer(s, throws) ==
    IF s.proc = 0
    THEN s
    ELSE [s EXCEPT !.procs = Kill(@, s.proc, throws),
                   !.proc = 0, !.port = 0, !.path = NullPath, !.time = 0]

StopServer(throws) ==
    /\ SetSup(stopLlamaServer(Sup, throws))
    /\ quiet' = (quiet /\ llamaServerProcess = 0)
    /\ stopped' = TRUE
    /\ UNCHANGED lastStatus
    /\ UNCHANGED <<tasks, lastEnsure>>
    /\ UNCHANGED <<regVars, instVars>>
    /\ UNCHANGED prompts

\* running told from the start time
StatusFromStartTime ==
    [running |-> llamaServerStartTime # 0,
     port |-> llamaServerPort,
     modelPath |-> llamaServerCurrentModelPath,
     uptime |-> IF llamaServerStartTime # 0 THEN Num(Now - llamaServerStartTime)
                                            ELSE Undefined]

\* getLlamaServerStatus (modelName left out)
getLlamaServerStatus ==
    [running |-> llamaServerProcess # 0,
     port |-> llamaServerPort,
     modelPath |-> llamaServerCurrentModelPath,
     uptime |-> IF llamaServerStartTime # 0 THEN Num(Now - llamaServerStartTime)
                                            ELSE Undefined]

NoStatus ==
    [asked |-> FALSE,
     status |-> [running |-> FALSE, port |-> 0, modelPath |-> NullPath,
                 uptime |-> Undefined]]

\* a getLlamaServerStatus call: getActiveModel runs ensureState, which loads and
\* persists the registry when it is not in memory
GetServerStatus ==
    /\ Idle
    /\ LET es == ensureState
       IN /\ cachedState' = es.state
          /\ Persist(es.writes, FALSE)
    /\ lastStatus' = [asked |-> TRUE, status |-> getLlamaServerStatus]
    /\ stopped' = FALSE
    /\ UNCHANGED <<llamaServerProcess, llamaServerPort, llamaServerCurrentModelPath,
                   llamaServerStartTime, llamaLogBuffer, procs, tasks, lastEnsure, quiet>>
    /\ UNCHANGED <<files, dls, keptAbsent>>
    /\ UNCHANGED instVars
    /\ UNCHANGED <<prompts, lastDownload>>

\* llamaServerProcess && llamaServerPort && llamaServerCurrentModelPath === modelPath
Reusable(s, modelPath) == s.proc # 0 /\ s.port # 0 /\ s.path = modelPath

NeverWrongModel(s, modelPath) == FALSE

\* llamaServerProcess && llamaServerCurrentModelPath !== modelPath
WrongModel(s, modelPath) == s.proc # 0 /\ s.path # modelPath

PathNotRecorded(s, modelPath) == s

\* llamaServerCurrentModelPath = modelPath, after spawnLlamaServer resolved
RecordModelPath(s, modelPath) == [s EXCEPT !.path = modelPath]

\* spawnLlamaServer up to its await, then the rest of ensureLlamaServer
EnsureSpawn(c, others, s, binaryPath, throws) ==
    IF s.proc # 0 /\ s.port # 0
    THEN \* the port known is reused
         Return(c, others, TRUE, RecordModelPath(s, c.modelPath))
    ELSE \* a process without a known port is killed; await pickAvailablePort()
         LET s1 == IF s.proc # 0
                   THEN [s EXCEPT !.procs = Kill(@, s.proc, throws), !.proc = 0, !.port = 0]
                   ELSE s
         IN Wait([c EXCEPT !.pc = "pickport", !.binaryPath = binaryPath], others, s1)

\* ensureLlamaServer from the check of the running server on, for the call c
\* (`others` are the calls that wait)
EnsureFrom(c, others, throws) ==
    IF Reusable(Sup, c.modelPath)
    THEN Return(c, others, TRUE, Sup)
    ELSE LET s1 == IF WrongModel(Sup, c.modelPath)
                   THEN [stopLlamaServer(Sup, throws) EXCEPT !.log = <<>>]
                   ELSE Sup
             install == getLlamaInstallStatus
         IN IF install.installed
            THEN EnsureSpawn(c, others, s1, install.binaryPath, throws)
            ELSE IF getPlatform(host) = "" \/ getArch(host) = ""
            THEN \* ensureLlamaBinary calls installLatestLlama, which returns at once
                 Return(c, others, FALSE, s1)
            ELSE \* ensureLlamaBinary calls installLatestLlama: the release is requested
                 Wait([c EXCEPT !.pc = "fetch", !.reqs = @ + 1, !.events = <<"status">>],
                      others, s1)

\* ensureLlamaServer, up to its first await
EnsureLlamaServer(throws) ==
    /\ Idle
    /\ lastEnsure.n + Len(SelectSeq(tasks, LAMBDA t : t.kind = "ensure")) < MaxCalls
    /\ Room
    /\ LET es == ensureState
           i == getActiveModel(es.state)
           others == Overlap(tasks)
       IN /\ cachedState' = es.state
          /\ Persist(es.writes, FALSE)
          /\ IF i # 0 /\ es.state.models[i].installed
                      /\ es.state.models[i].filePath # NullPath
             THEN /\ EnsureFrom(Task("ensure", "begin", NullPath, es.state.models[i].filePath,
                                     OrElse(es.state.models[i].currentParams.contextWindow,
                                            Num(DEFAULT_CONTEXT)),
                                     0, others),
                                others, throws)
                  /\ UNCHANGED files
             ELSE IF existsSync(QwenPath)
             THEN /\ EnsureFrom(Task("ensure", "begin", NullPath, QwenPath,
                                     Num(DEFAULT_CONTEXT), 0, others),
                                others, throws)
                  /\ UNCHANGED files
             ELSE \* downloadModelIfNeeded: the temp file is created, the request sent
                  /\ files' = [files EXCEPT ![DownloadPath(QwenPath)] = "partial"]
                  /\ Wait([Task("ensure", "dlmodel", NullPath, QwenPath,
                                Num(DEFAULT_CONTEXT), 0, others) EXCEPT !.reqs = 1],
                          others, Sup)
    /\ stopped' = FALSE
    /\ UNCHANGED lastStatus
    /\ UNCHANGED <<dls, keptAbsent>>
    /\ UNCHANGED instVars
    /\ UNCHANGED <<prompts, lastDownload>>

\* the default model of an ensureLlamaServer call is downloaded: renameSync, then the
\* rest of ensureLlamaServer
EnsureModelDone(t, throws) ==
    /\ Idle
    /\ tasks[t].kind = "ensure" /\ tasks[t].pc = "dlmodel"
    /\ files[DownloadPath(QwenPath)] # "absent"
    /\ files' = [files EXCEPT ![DownloadPath(QwenPath)] = "absent", ![QwenPath] = "full"]
    /\ EnsureFrom(tasks[t], RemoveAt(tasks, t), throws)
    /\ stopped' = FALSE
    /\ UNCHANGED lastStatus
    /\ UNCHANGED <<cachedState, stateFile, tmpStateFile, pending, wpc, dls, keptAbsent>>
    /\ UNCHANGED instVars
    /\ UNCHANGED <<prompts, lastDownload>>

\* the download fails, or its temp file is gone at the rename: the await is outside
\* the try of ensureLlamaServer, whose promise rejects
EnsureModelFail(t) ==
    /\ tasks[t].kind = "ensure" /\ tasks[t].pc = "dlmodel"
    /\ files' = [files EXCEPT ![DownloadPath(QwenPath)] = "absent"]
    /\ Reject(tasks[t], RemoveAt(tasks, t))
    /\ stopped' = FALSE
    /\ UNCHANGED lastStatus
    /\ UNCHANGED <<cachedState, stateFile, tmpStateFile, pending, wpc, dls, keptAbsent>>
    /\ UNCHANGED instVars
    /\ UNCHANGED <<prompts, lastDownload>>

\* spawn(binaryPath, args) and the recording of the subprocess
spawnLlamaServer(s, t, port) ==
    [s EXCEPT !.procs = Append(@, [port |-> port, model |-> t.modelPath, ctx |-> t.ctx,
                                   binaryPath |-> t.binaryPath, st |-> "alive",
                                   kills |-> 0, by |-> t.kind, from |-> t.from]),
              !.proc = Len(s.procs) + 1,
              !.port = port,
              !.time = Now]

\* pickAvailablePort found a candidate unavailable: the loop goes on
ProbeBusy(t) ==
    /\ tasks[t].pc = "pickport"
    /\ tasks[t].probes < PORT_ATTEMPTS
    /\ tasks' = [tasks EXCEPT ![t].probes = @ + 1]
    /\ stopped' = FALSE
    /\ UNCHANGED lastStatus
    /\ UNCHANGED <<llamaServerProcess, llamaServerPort, llamaServerCurrentModelPath,
                   llamaServerStartTime, llamaLogBuffer, procs, lastEnsure, quiet>>
    /\ UNCHANGED <<regVars, instVars>>
    /\ UNCHANGED prompts

\* pickAvailablePort found the candidate `port` available
PortPicked(t, port) ==
    /\ tasks[t].pc = "pickport"
    /\ LET s == spawnLlamaServer(Sup, tasks[t], port)
       IN IF tasks[t].kind = "ensure"
          THEN Return(tasks[t], RemoveAt(tasks, t), TRUE,
                      RecordModelPath(s, tasks[t].modelPath))
          ELSE /\ SetSup(s)
               /\ tasks' = RemoveAt(tasks, t)
               /\ quiet' = FALSE
               /\ UNCHANGED lastEnsure
    /\ stopped' = FALSE
    /\ UNCHANGED lastStatus
    /\ UNCHANGED <<regVars, instVars>>
    /\ UNCHANGED prompts

ExhaustedSpawnsAnyway(t) == PortPicked(t, 10000)

\* none of the candidates left was available: pickAvailablePort throws
PortExhausted(t) ==
    /\ tasks[t].pc = "pickport"
    /\ IF tasks[t].kind = "ensure"
       THEN Return(tasks[t], RemoveAt(tasks, t), FALSE, Sup)
       ELSE /\ tasks' = RemoveAt(tasks, t)
            /\ UNCHANGED <<llamaServerProcess, llamaServerPort, llamaServerCurrentModelPath,
                           llamaServerStartTime, llamaLogBuffer, procs, lastEnsure, quiet>>
    /\ stopped' = FALSE
    /\ UNCHANGED lastStatus
    /\ UNCHANGED <<regVars, instVars>>
    /\ UNCHANGED prompts

PushWithoutShift(log, level, message) ==
    Append(log, [timestamp |-> Now, level |-> level, message |-> message])

\* addToLogBuffer: push, then shift when the buffer is longer than LOG_BUFFER_SIZE
addToLogBuffer(log, level, message) ==
    LET pushed == Append(log, [timestamp |-> Now, level |-> level, message |-> message])
    IN IF Len(pushed) > LOG_BUFFER_SIZE THEN Tail(pushed) ELSE pushed

\* restartLlamaServerOnNewPort up to the await of spawnLlamaServer
restartLlamaServerOnNewPort(s, throws) ==
    IF s.proc # 0
    THEN [s EXCEPT !.procs = Kill(@, s.proc, throws), !.proc = 0, !.port = 0]
    ELSE s

\* the stderr handler of subprocess p, for a line that reports a port conflict
StderrConflict(p, throws) ==
    /\ p \in DOMAIN procs
    /\ procs[p].st # "exited"
    /\ Room
    /\ Len(llamaLogBuffer) < MaxLog
    /\ SetSup(restartLlamaServerOnNewPort(
                  [Sup EXCEPT !.log = addToLogBuffer(@, "error", "address already in use")],
                  throws))
    /\ tasks' = Append(Overlap(tasks),
                       Task("restart", "pickport", procs[p].binaryPath, procs[p].model,
                            Num(DEFAULT_CONTEXT), p, tasks))
    /\ quiet' = FALSE
    /\ stopped' = FALSE
    /\ UNCHANGED lastStatus
    /\ UNCHANGED lastEnsure
    /\ UNCHANGED <<regVars, instVars>>
    /\ UNCHANGED prompts

\* the stdout handler (level "info") or the stderr handler (level "error") of
\* subprocess p, for a line that reports no port conflict
Output(p, level) ==
    /\ p \in DOMAIN procs
    /\ procs[p].st # "exited"
    /\ IF Len(llamaLogBuffer) > MaxLog
       THEN \* a long buffer takes MaxLines more lines
            llamaLogBuffer[Len(llamaLogBuffer) - MaxLines + 1].message # "line"
       ELSE Len(llamaLogBuffer) < MaxLog
    /\ llamaLogBuffer' = addToLogBuffer(llamaLogBuffer, level, "line")
    /\ stopped' = FALSE
    /\ UNCHANGED lastStatus
    /\ UNCHANGED <<llamaServerProcess, llamaServerPort, llamaServerCurrentModelPath,
                   llamaServerStartTime, procs, tasks, lastEnsure, quiet>>
    /\ UNCHANGED <<regVars, instVars>>
    /\ UNCHANGED prompts

ExitKeepsPort(p) ==
    /\ p \in DOMAIN procs
    /\ procs[p].st # "exited"
    /\ procs' = [procs EXCEPT ![p].st = "exited"]
    /\ llamaServerProcess' = 0
    /\ quiet' = FALSE
    /\ stopped' = FALSE
    /\ UNCHANGED lastStatus
    /\ UNCHANGED <<llamaServerPort, llamaServerCurrentModelPath, llamaServerStartTime,
                   llamaLogBuffer, tasks, lastEnsure>>
    /\ UNCHANGED <<regVars, instVars>>
    /\ UNCHANGED prompts

ExitRestarts(p) ==
    /\ p \in DOMAIN procs
    /\ procs[p].st # "exited"
    /\ Room
    /\ procs' = [procs EXCEPT ![p].st = "exited"]
    /\ llamaServerProcess' = 0
    /\ llamaServerPort' = 0
    /\ tasks' = Append(Overlap(tasks),
                       Task("restart", "pickport", procs[p].binaryPath, procs[p].model,
                            Num(DEFAULT_CONTEXT), p, tasks))
    /\ quiet' = FALSE
    /\ stopped' = FALSE
    /\ UNCHANGED lastStatus
    /\ UNCHANGED <<llamaServerCurrentModelPath, llamaServerStartTime,
                   llamaLogBuffer, lastEnsure>>
    /\ UNCHANGED <<regVars, instVars>>
    /\ UNCHANGED prompts

\* subprocess p exits, by itself or after a kill: its exit handler runs
ExitEvent(p) ==
    /\ p \in DOMAIN procs
    /\ procs[p].st # "exited"
    /\ procs' = [procs EXCEPT ![p].st = "exited"]
    /\ llamaServerProcess' = 0
    /\ llamaServerPort' = 0
    /\ quiet' = FALSE
    /\ stopped' = FALSE
    /\ UNCHANGED lastStatus
    /\ UNCHANGED <<llamaServerCurrentModelPath, llamaServerStartTime,
                   llamaLogBuffer, tasks, lastEnsure>>
    /\ UNCHANGED <<regVars, instVars>>
    /\ UNCHANGED prompts

(***************************************************************************)
(* Artifact Installer: installLatestLlama.  The release is the one that    *)
(* RELEASES_API_URL names; an asset picked is a zip archive that holds     *)
(* llama-server.                                                           *)
(***************************************************************************)
\* release.tag_name of the release that RELEASES_API_URL names
Tags == {LLAMA_VERSION}
\* path.join(INSTALL_DIR, asset.name)
AssetPath(name) == <<INSTALL_DIR>> \o name
\* the llama-server that the archive of the release holds, once extracted
BinaryIn(tag) == <<INSTALL_DIR, tag, "build", "bin", "llama-server">>

Installed(tag, binaryPath) ==
    [installed |-> TRUE, version |-> tag, binaryPath |-> binaryPath]

NoInstall ==
    [returned |-> FALSE, status |-> NotInstalled, reqs |-> 0, prev |-> NotInstalled,
     error |-> "", events |-> <<>>]

MetadataLeftPartial(status) == [st |-> "partial", doc |-> status]

\* writeInstallMetadata
writeInstallMetadata(status) == [st |-> "full", doc |-> status]

\* no event before a failed return
SilentOnError(status) ==
    IF status.installed THEN <<"install-complete">> ELSE <<>>

\* the onProgress call that precedes every return of installLatestLlama
LastEvent(status) ==
    IF status.installed THEN <<"install-complete">> ELSE <<"error">>

\* the events of a download that ended, and of one that failed before (started =
\* FALSE) or after its response began to stream
DownloadEvents(ended, started) ==
    IF ended THEN <<"download-start", "download-progress", "download-complete">>
    ELSE IF started THEN <<"download-start", "download-progress">>
    ELSE <<>>

\* installLatestLlama returns `status` (with `error` when it is not installed),
\* having emitted `events` and then its last event, to its caller: the IPC handler,
\* or ensureLlamaBinary and then the rest of ensureLlamaServer; bins are the files
\* under INSTALL_DIR at that time
InstallReturn(t, status, error, events, bins, throws) ==
    IF tasks[t].kind = "install"
    THEN /\ lastInstall' = [returned |-> TRUE, status |-> status, reqs |-> tasks[t].reqs,
                            prev |-> tasks[t].prev, error |-> error,
                            events |-> tasks[t].events \o events \o LastEvent(status)]
         /\ tasks' = RemoveAt(tasks, t)
         /\ UNCHANGED <<llamaServerProcess, llamaServerPort, llamaServerCurrentModelPath,
                        llamaServerStartTime, llamaLogBuffer, procs, lastEnsure, quiet>>
    ELSE /\ UNCHANGED lastInstall
         /\ IF status.installed /\ status.binaryPath \in bins
            THEN EnsureSpawn(tasks[t], RemoveAt(tasks, t), Sup, status.binaryPath, throws)
            ELSE Return(tasks[t], RemoveAt(tasks, t), FALSE, Sup)

\* the call t goes on waiting, as the record c
InstallWait(t, c) ==
    /\ tasks' = [tasks EXCEPT ![t] = c]
    /\ UNCHANGED <<llamaServerProcess, llamaServerPort, llamaServerCurrentModelPath,
                   llamaServerStartTime, llamaLogBuffer, procs, lastEnsure, quiet>>
    /\ UNCHANGED lastInstall

\* installLatestLlama, up to the request of the latest release
InstallLatestLlama ==
    /\ Len(tasks) < MaxInstalls
    /\ IF getPlatform(host) = "" \/ getArch(host) = ""
       THEN /\ lastInstall' =
                   [returned |-> TRUE, status |-> NotInstalled, reqs |-> 0,
                    prev |-> Task("install", "fetch", NullPath, NullPath,
                                  Num(DEFAULT_CONTEXT), 0, tasks).prev,
                    error |-> IF getPlatform(host) = "" THEN "Unsupported platform"
                                                        ELSE "Unsupported architecture",
                    events |-> LastEvent(NotInstalled)]
            /\ UNCHANGED tasks
       ELSE /\ tasks' = Append(tasks, [Task("install", "fetch", NullPath, NullPath,
                                            Num(DEFAULT_CONTEXT), 0, tasks)
                                           EXCEPT !.reqs = 1, !.events = <<"status">>])
            /\ UNCHANGED lastInstall
    /\ stopped' = FALSE
    /\ UNCHANGED lastStatus
    /\ UNCHANGED <<llamaServerProcess, llamaServerPort, llamaServerCurrentModelPath,
                   llamaServerStartTime, llamaLogBuffer, procs, lastEnsure, quiet>>
    /\ UNCHANGED <<regVars, metadataFile, binFiles, host>>
    /\ UNCHANGED prompts

\* fetchJson resolved with the release `tag` whose assets have the names `assets`
FetchDone(t, tag, assets, throws) ==
    /\ tasks[t].pc = "fetch"
    /\ LET candidateAssets ==
               SelectSeq(assets, LAMBDA name :
                   pickAssetNamePattern(getPlatform(host), getArch(host), name))
       IN IF candidateAssets # <<>>
          THEN \* downloadFile: the stream to destPath is created, the request sent
               /\ binFiles' = binFiles \cup {AssetPath(PickAsset(candidateAssets))}
               /\ InstallWait(t, [tasks[t] EXCEPT !.pc = "asset", !.tag = tag,
                                                  !.asset = PickAsset(candidateAssets),
                                                  !.reqs = @ + 1, !.url = 0])
          ELSE /\ InstallReturn(t, NotInstalled, "No suitable asset", <<>>, binFiles, throws)
               /\ UNCHANGED binFiles
    /\ stopped' = FALSE
    /\ UNCHANGED lastStatus
    /\ UNCHANGED <<regVars, metadataFile, host>>
    /\ UNCHANGED prompts

\* fetchJson rejected
FetchFail(t, throws) ==
    /\ tasks[t].pc = "fetch"
    /\ InstallReturn(t, NotInstalled, "Failed to install", <<>>, binFiles, throws)
    /\ stopped' = FALSE
    /\ UNCHANGED lastStatus
    /\ UNCHANGED <<regVars, metadataFile, binFiles, host>>
    /\ UNCHANGED prompts

\* a download answers with a redirect: the file is unlinked, downloadFile runs again
\* with the location (it keeps no count of the redirects it has followed; the history
\* reqs counts the requests up to MaxRequests)
Redirect(t) ==
    /\ tasks[t].pc \in {"asset", "model", "dlmodel"}
    /\ InstallWait(t, [tasks[t] EXCEPT !.reqs = IF @ < MaxRequests THEN @ + 1 ELSE @,
                                       !.url = 1 - @])
    /\ stopped' = FALSE
    /\ UNCHANGED lastStatus
    /\ UNCHANGED <<regVars, metadataFile, binFiles, host>>
    /\ UNCHANGED prompts

\* the download of the asset fails: the file is unlinked, the promise rejects
AssetFail(t, started, throws) ==
    /\ tasks[t].pc = "asset"
    /\ binFiles' = binFiles \ {AssetPath(tasks[t].asset)}
    /\ InstallReturn(t, NotInstalled, "Failed to install", DownloadEvents(FALSE, started),
                     binFiles', throws)
    /\ stopped' = FALSE
    /\ UNCHANGED lastStatus
    /\ UNCHANGED <<regVars, metadataFile, host>>
    /\ UNCHANGED prompts

\* the download of the asset ends: inferBinaryPathFromAsset starts extractZip
AssetDone(t) ==
    /\ tasks[t].pc = "asset"
    /\ InstallWait(t, [tasks[t] EXCEPT !.pc = "extract",
                                       !.events = @ \o DownloadEvents(TRUE, TRUE)])
    /\ stopped' = FALSE
    /\ UNCHANGED lastStatus
    /\ UNCHANGED <<regVars, metadataFile, binFiles, host>>
    /\ UNCHANGED prompts

\* extractZip rejected
ExtractFail(t, throws) ==
    /\ tasks[t].pc = "extract"
    /\ InstallReturn(t, NotInstalled, "Failed to install", <<>>, binFiles, throws)
    /\ stopped' = FALSE
    /\ UNCHANGED lastStatus
    /\ UNCHANGED <<regVars, metadataFile, binFiles, host>>
    /\ UNCHANGED prompts

\* extractZip resolved: the search under INSTALL_DIR finds the llama-server b (the
\* order of readdirSync decides which, when several are there), the metadata is
\* written, downloadModelIfNeeded is called
ExtractDone(t, b, throws) ==
    /\ tasks[t].pc = "extract"
    /\ b \in {BinaryIn(g) : g \in Tags} \cap (binFiles \cup {BinaryIn(tasks[t].tag)})
    /\ binFiles' = binFiles \cup {BinaryIn(tasks[t].tag)}
    /\ metadataFile' = writeInstallMetadata([version |-> tasks[t].tag, binaryPath |-> b])
    /\ IF existsSync(QwenPath)
       THEN /\ InstallReturn(t, Installed(tasks[t].tag, b), "", <<>>, binFiles', throws)
            /\ UNCHANGED files
       ELSE /\ files' = [files EXCEPT ![DownloadPath(QwenPath)] = "partial"]
            /\ InstallWait(t, [tasks[t] EXCEPT !.pc = "model", !.binaryPath = b,
                                               !.reqs = @ + 1, !.url = 0])
    /\ stopped' = FALSE
    /\ UNCHANGED lastStatus
    /\ UNCHANGED <<cachedState, stateFile, tmpStateFile, pending, wpc, dls, keptAbsent>>
    /\ UNCHANGED host
    /\ UNCHANGED <<prompts, lastDownload>>

\* the download of the default model ends: renameSync to the final path
ModelDone(t, throws) ==
    /\ tasks[t].pc = "model"
    /\ IF files[DownloadPath(QwenPath)] = "absent"
       THEN \* renameSync throws: caught by installLatestLlama
            /\ InstallReturn(t, NotInstalled, "Failed to install",
                             DownloadEvents(TRUE, TRUE), binFiles, throws)
            /\ UNCHANGED files
       ELSE /\ files' = [files EXCEPT ![DownloadPath(QwenPath)] = "absent",
                                      ![QwenPath] = "full"]
            /\ InstallReturn(t, Installed(tasks[t].tag, tasks[t].binaryPath), "",
                             DownloadEvents(TRUE, TRUE), binFiles, throws)
    /\ stopped' = FALSE
    /\ UNCHANGED lastStatus
    /\ UNCHANGED <<cachedState, stateFile, tmpStateFile, pending, wpc, dls, keptAbsent>>
    /\ UNCHANGED <<metadataFile, binFiles, host>>
    /\ UNCHANGED <<prompts, lastDownload>>

\* the download of the default model fails: the temp file is unlinked
ModelFail(t, started, throws) ==
    /\ tasks[t].pc = "model"
    /\ files' = [files EXCEPT ![DownloadPath(QwenPath)] = "absent"]
    /\ InstallReturn(t, NotInstalled, "Failed to install", DownloadEvents(FALSE, started),
                     binFiles, throws)
    /\ stopped' = FALSE
    /\ UNCHANGED lastStatus
    /\ UNCHANGED <<cachedState, stateFile, tmpStateFile, pending, wpc, dls, keptAbsent>>
    /\ UNCHANGED <<metadataFile, binFiles, host>>
    /\ UNCHANGED <<prompts, lastDownload>>

\* writeInstallMetadata taken step by step: fs.writeFileSync opens METADATA_FILE
\* with O_TRUNC and writes into it in place; the application stops before the write
\* is complete (memory is lost, files stay)
CrashInWriteInstallMetadata(t, b) ==
    /\ tasks[t].pc = "extract"
    /\ b \in {BinaryIn(g) : g \in Tags} \cap (binFiles \cup {BinaryIn(tasks[t].tag)})
    /\ binFiles' = binFiles \cup {BinaryIn(tasks[t].tag)}
    /\ metadataFile' = [st |-> "partial",
                        doc |-> [version |-> tasks[t].tag, binaryPath |-> b]]
    /\ tasks' = <<>>
    /\ cachedState' = NullState
    /\ pending' = <<>>
    /\ wpc' = "idle"
    /\ dls' = <<>>
    /\ SetSup([Sup EXCEPT !.proc = 0, !.port = 0, !.path = NullPath, !.time = 0,
                          !.log = <<>>])
    /\ quiet' = FALSE
    /\ stopped' = FALSE
    /\ UNCHANGED lastStatus
    /\ UNCHANGED <<stateFile, tmpStateFile, files, keptAbsent, lastEnsure, lastInstall,
                   host>>
    /\ UNCHANGED <<prompts, lastDownload>>

\* the user removes a file under INSTALL_DIR behind the application's back
ExternalDeleteBinary(b) ==
    /\ b \in binFiles
    /\ binFiles' = binFiles \ {b}
    /\ stopped' = FALSE
    /\ UNCHANGED lastStatus
    /\ UNCHANGED <<llamaServerProcess, llamaServerPort, llamaServerCurrentModelPath,
                   llamaServerStartTime, llamaLogBuffer, procs, tasks, lastEnsure, quiet>>
    /\ UNCHANGED <<regVars, metadataFile, lastInstall, host>>
    /\ UNCHANGED prompts

\* the user removes METADATA_FILE behind the application's back
ExternalDeleteMetadata ==
    /\ metadataFile.st # "absent"
    /\ metadataFile' = [st |-> "absent", doc |-> NoMetadata]
    /\ stopped' = FALSE
    /\ UNCHANGED lastStatus
    /\ UNCHANGED <<llamaServerProcess, llamaServerPort, llamaServerCurrentModelPath,
                   llamaServerStartTime, llamaLogBuffer, procs, tasks, lastEnsure, quiet>>
    /\ UNCHANGED <<regVars, binFiles, lastInstall, host>>
    /\ UNCHANGED prompts

\* the registry's setActiveModel, seen by the supervisor
SelectModel(id) ==
    /\ SetActiveModel(id, FALSE)
    /\ quiet' = (quiet /\ cachedState'.activeModelId = cachedState.activeModelId)
    /\ stopped' = FALSE
    /\ UNCHANGED lastStatus
    /\ UNCHANGED <<llamaServerProcess, llamaServerPort, llamaServerCurrentModelPath,
                   llamaServerStartTime, llamaLogBuffer, procs, tasks, lastEnsure>>
    /\ UNCHANGED instVars

\* updateModelParams of the IPC surface, next to the supervisor
TuneModel(id, params) ==
    /\ UpdateModelParams(id, params, FALSE)
    /\ stopped' = FALSE
    /\ UNCHANGED lastStatus
    /\ UNCHANGED <<llamaServerProcess, llamaServerPort, llamaServerCurrentModelPath,
                   llamaServerStartTime, llamaLogBuffer, procs, tasks, lastEnsure, quiet>>
    /\ UNCHANGED instVars

(***************************************************************************)
(* P2P request bridge: handlePromptRequest of the renderer.  A received    *)
(* 'prompt' message is a record of prompts; its trace is the history of    *)
(* the messages sent to the peer for it, with "ensureServer" where the     *)
(* call of window.llama.ensureServer was made.  The preload script always  *)
(* exposes window.llama.ensureServer.                                      *)
(***************************************************************************)
\* the line-by-line loop over the complete lines of a chunk: a line is a record
\* that tells whether its JSON holds reasoning_content, content, and a finish
\* (done, finish_reason, or the line "data: [DONE]"); blank lines, comments and
\* lines that are no JSON hold nothing.  The result: the messages sent and
\* whether the function returned.
RECURSIVE SendsAfterEnd(_)
SendsAfterEnd(lines) ==
    IF lines = <<>>
    THEN [sent |-> <<>>, returned |-> FALSE]
    ELSE LET rest == SendsAfterEnd(Tail(lines))
         IN [sent |-> (IF lines[1].content THEN <<"token">> ELSE <<>>)
                      \o (IF lines[1].done THEN <<"end">> ELSE <<>>) \o rest.sent,
             returned |-> lines[1].done \/ rest.returned]

RECURSIVE ProcessLines(_)
ProcessLines(lines) ==
    IF lines = <<>>
    THEN [sent |-> <<>>, returned |-> FALSE]
    ELSE LET toks == (IF lines[1].reasoning THEN <<"reasoning_token">> ELSE <<>>)
                     \o (IF lines[1].content THEN <<"token">> ELSE <<>>)
         IN IF lines[1].done
            THEN [sent |-> toks \o <<"end">>, returned |-> TRUE]
            ELSE LET rest == ProcessLines(Tail(lines))
                 IN [rest EXCEPT !.sent = toks \o @]

\* the 'msg' handler for a message of type 'prompt', and handlePromptRequest up to
\* its await of ensureServer; calls is the number of ensureLlamaServer calls made
\* so far
HandlePromptRequest(id, prompt) ==
    /\ Len(prompts) < MaxPrompts
    /\ (id # "" /\ prompt # "") =>
           \* one call at a time waits for ensureServer, which can still be called
           /\ \A p \in DOMAIN prompts : prompts[p].pc # "ensure"
           /\ Room
           /\ lastEnsure.n < MaxCalls
    /\ prompts' = Append(prompts,
           IF id = "" \/ prompt = ""
           THEN [id |-> id, prompt |-> prompt, pc |-> "returned",
                 trace |-> IF id # "" THEN <<"error">> ELSE <<>>,
                 calls |-> lastEnsure.n, ensure |-> "none", chunks |-> 0]
           ELSE [id |-> id, prompt |-> prompt, pc |-> "ensure",
                 trace |-> <<"start", "ensureServer">>,
                 calls |-> lastEnsure.n, ensure |-> "none", chunks |-> 0])
    /\ stopped' = FALSE
    /\ UNCHANGED lastStatus
    /\ UNCHANGED <<llamaServerProcess, llamaServerPort, llamaServerCurrentModelPath,
                   llamaServerStartTime, llamaLogBuffer, procs, tasks, lastEnsure, quiet>>
    /\ UNCHANGED <<regVars, instVars>>

\* the main process handles the 'llama-ensure-server' request of the call that
\* waits: ensureLlamaServer runs
EnsureServerInvoked(throws) ==
    /\ \E p \in DOMAIN prompts :
           prompts[p].pc = "ensure" /\ prompts[p].calls = lastEnsure.n /\ tasks = <<>>
    /\ EnsureLlamaServer(throws)

\* the continuation of the call p after one of its awaits
PromptStep(p, pc, sent, ensure) ==
    /\ prompts' = [prompts EXCEPT ![p].pc = pc, ![p].trace = @ \o sent,
                                  ![p].ensure = ensure,
                                  ![p].chunks = IF prompts[p].pc = "read" THEN @ + 1 ELSE @]
    /\ stopped' = FALSE
    /\ UNCHANGED lastStatus
    /\ UNCHANGED <<llamaServerProcess, llamaServerPort, llamaServerCurrentModelPath,
                   llamaServerStartTime, llamaLogBuffer, procs, tasks, lastEnsure, quiet>>
    /\ UNCHANGED <<regVars, instVars>>

\* ensureServer returned to the call p: the result of ensureLlamaServer, or
\* { ok: false } from the preload script when the promise of the request rejected
EnsureServerReturned(p) ==
    /\ prompts[p].pc = "ensure"
    /\ lastEnsure.n = prompts[p].calls + 1
    /\ IF lastEnsure.ok /\ ~lastEnsure.rejected
       THEN \* fetch(endpoint, ...) is sent
            PromptStep(p, "fetch", <<>>, "ok")
       ELSE PromptStep(p, "returned", <<"error">>, "failed")

\* fetch resolved with a response that is ok and has a body: the first read begins
FetchResolved(p) ==
    /\ prompts[p].pc = "fetch"
    /\ PromptStep(p, "read", <<>>, prompts[p].ensure)

\* reader.read() resolved: with the stream done and the buffer holding `lines`
\* (nothing, or one line without a newline: its tokens are sent, its finish is not
\* looked at, and text that is no JSON is a content token), or with a chunk whose
\* complete lines are `lines`
ReaderRead(p, doneReading, lines) ==
    /\ prompts[p].pc = "read"
    /\ IF doneReading
       THEN /\ Len(lines) <= 1
            /\ PromptStep(p, "returned",
                          (IF lines # <<>> /\ lines[1].reasoning
                           THEN <<"reasoning_token">> ELSE <<>>)
                          \o (IF lines # <<>> /\ lines[1].content
                              THEN <<"token">> ELSE <<>>)
                          \o <<"end">>,
                          prompts[p].ensure)
       ELSE /\ prompts[p].chunks < MaxChunks
            /\ LET r == ProcessLines(lines)
               IN PromptStep(p, IF r.returned THEN "returned" ELSE "read", r.sent,
                             prompts[p].ensure)

\* an await inside the try of the call p threw: fetch rejected, the response was
\* not ok or had no body, or reader.read() rejected
PromptCatch(p) ==
    /\ prompts[p].pc \in {"fetch", "read"}
    /\ PromptStep(p, "returned", <<"error">>, prompts[p].ensure)

(***************************************************************************)
(* Initial conditions of the supervisor and of the installer               *)
(***************************************************************************)
InitSupIdle ==
    /\ llamaServerProcess = 0
    /\ llamaServerPort = 0
    /\ llamaServerCurrentModelPath = NullPath
    /\ llamaServerStartTime = 0
    /\ llamaLogBuffer = <<>>
    /\ procs = <<>>
    /\ tasks = <<>>
    /\ lastEnsure = NoEnsure
    /\ quiet = FALSE
    /\ stopped = FALSE
    /\ lastStatus = NoStatus
    /\ prompts = <<>>

InitNotInstalled ==
    /\ metadataFile = [st |-> "absent", doc |-> NoMetadata]
    /\ binFiles = {}
    /\ lastInstall = NoInstall
    /\ host = LinuxX64

InitInstalled ==
    /\ metadataFile = writeInstallMetadata([version |-> LLAMA_VERSION,
                                            binaryPath |-> BinaryIn(LLAMA_VERSION)])
    /\ binFiles = {AssetPath(UbuntuAsset), BinaryIn(LLAMA_VERSION)}
    /\ lastInstall = NoInstall
    /\ host = LinuxX64

(***************************************************************************)
(* SpecReg: the registry operations; a handler's writes are done when it   *)
(* returns                                                                 *)
(***************************************************************************)
RegPartials == { [contextWindow |-> NaN, gpuLayers |-> Num(65)] }

\* the { repoId, fileName } options given to downloadHfModel
DownloadOptions == { <<"X", "m.gguf">> }

RegIds == {QwenId, UnknownId} \cup {HfId(o[1], o[2]) : o \in DownloadOptions}

InitReg ==
    /\ cachedState = NullState
    /\ stateFile = AbsentFile
    /\ tmpStateFile = AbsentFile
    /\ pending = <<>>
    /\ wpc = "idle"
    /\ files \in [AllPaths -> {"absent"}] \cup
                 {[p \in AllPaths |-> IF p = QwenPath THEN "full" ELSE "absent"]}
    /\ dls = <<>>
    /\ keptAbsent = TRUE
    /\ lastDownload = NoDownload
    /\ InitSupIdle
    /\ InitNotInstalled

NextReg ==
  /\ UNCHANGED <<supVars, instVars>>
  /\
    \/ ListModels(FALSE)
    \/ \E id \in RegIds : SetActiveModel(id, FALSE)
    \/ \E id \in {QwenId, UnknownId}, params \in RegPartials :
            UpdateModelParams(id, params, FALSE)
    \/ \E o \in DownloadOptions : DownloadBegin(o[1], o[2])
    \/ dls = <<>> /\ DownloadBegin("", "m.gguf")
    \/ \E d \in DOMAIN dls : DownloadResponse(d)
    \/ \E d \in DOMAIN dls : DownloadFail(d)
    \/ \E d \in DOMAIN dls : DownloadEnd(d, FALSE)
    \/ Restart
    \/ \E p \in ModelPaths : ExternalDelete(p)
    \/ DefaultModelDownloaded

SpecReg == InitReg /\ [][NextReg]_vars

(***************************************************************************)
(* SpecPersist: the same handlers with writeJsonAtomic taken step by step, *)
(* so that the application can stop between two steps                      *)
(***************************************************************************)
NextPersist ==
  /\ UNCHANGED <<supVars, instVars>>
  /\
    \/ ListModels(TRUE)
    \/ \E id \in {QwenId, UnknownId} : SetActiveModel(id, TRUE)
    \/ \E params \in RegPartials : UpdateModelParams(QwenId, params, TRUE)
    \/ WriteTmpBegin
    \/ WriteTmpEnd
    \/ RenameTmp
    \/ Restart
    \/ \E p \in ModelPaths : ExternalDelete(p)

SpecPersist == InitReg /\ [][NextPersist]_vars

(***************************************************************************)
(* SpecParams: updateModelParams on the builtin model, for every partial   *)
(* object of at most MaxPartialKeys keys whose values are below the range, *)
(* above it, NaN or undefined                                              *)
(***************************************************************************)
Kinds == {"below", "above", "nan", "undef"}

ValueOf(k, kind) ==
    CASE kind = "below" -> Num(ParamMin[k] - 1)
      [] kind = "above" -> Num(ParamMax[k] + 1)
      [] kind = "nan" -> NaN
      [] OTHER -> Undefined

Partials ==
    UNION { { [k \in D |-> ValueOf(k, f[k])] : f \in [D -> Kinds] } :
            D \in {D \in SUBSET ParamKeys : Cardinality(D) <= MaxPartialKeys} }

NextParams ==
  /\ UNCHANGED <<supVars, instVars>>
  /\
    \/ ListModels(FALSE)
    \/ \E params \in Partials : UpdateModelParams(QwenId, params, FALSE)
    \/ \E params \in RegPartials : UpdateModelParams(UnknownId, params, FALSE)

InitParams == InitReg /\ files[QwenPath] = "full"

SpecParams == InitParams /\ [][NextParams]_vars

(***************************************************************************)
(* SpecSup: the supervisor, with the registry loaded (the built-in model   *)
(* and one downloaded model installed) and llama.cpp installed             *)
(***************************************************************************)
SupFiles == [p \in AllPaths |-> IF p \in ModelPaths THEN "full" ELSE "absent"]

SupIds == {QwenId, HfId("X", "m.gguf")}

InitSup ==
    /\ cachedState = persistState(Upsert(computeInitialState(SupFiles), HfId("X", "m.gguf"),
                                         JoinPath(MODEL_DIR, "m.gguf")))
    /\ stateFile = FullFile(JsonDocument(cachedState))
    /\ tmpStateFile = stateFile
    /\ pending = <<>>
    /\ wpc = "idle"
    /\ files = SupFiles
    /\ dls = <<>>
    /\ keptAbsent = TRUE
    /\ lastDownload = NoDownload
    /\ InitSupIdle
    /\ InitInstalled

NextSup ==
    \/ \E throws \in BOOLEAN : EnsureLlamaServer(throws)
    \/ \E t \in DOMAIN tasks, port \in Ports : PortPicked(t, port)
    \/ \E t \in DOMAIN tasks : PortExhausted(t)
    \/ \E throws \in BOOLEAN : StopServer(throws)
    \/ \E p \in DOMAIN procs : ExitEvent(p)
    \/ \E id \in SupIds : SelectModel(id)

SpecSup == InitSup /\ [][NextSup]_vars

(***************************************************************************)
(* SpecConflict: the supervisor with subprocesses that report port         *)
(* conflicts; the active model stays as it is                              *)
(***************************************************************************)
NextConflict ==
    \/ \E throws \in BOOLEAN : EnsureLlamaServer(throws)
    \/ \E t \in DOMAIN tasks, port \in Ports : PortPicked(t, port)
    \/ \E t \in DOMAIN tasks : PortExhausted(t)
    \/ \E throws \in BOOLEAN : StopServer(throws)
    \/ \E p \in DOMAIN procs, throws \in BOOLEAN : StderrConflict(p, throws)
    \/ \E p \in DOMAIN procs : ExitEvent(p)

SpecConflict == InitSup /\ [][NextConflict]_vars

(***************************************************************************)
(* SpecPorts: the supervisor with every candidate port of a start told     *)
(* apart, and with subprocesses that report port conflicts; the active     *)
(* model stays as it is                                                    *)
(***************************************************************************)
NextPorts ==
    \/ \E throws \in BOOLEAN : EnsureLlamaServer(throws)
    \/ \E t \in DOMAIN tasks : ProbeBusy(t)
    \/ \E t \in DOMAIN tasks, port \in Ports :
           tasks[t].probes < PORT_ATTEMPTS /\ PortPicked(t, port)
    \/ \E t \in DOMAIN tasks : tasks[t].probes = PORT_ATTEMPTS /\ PortExhausted(t)
    \/ \E p \in DOMAIN procs, throws \in BOOLEAN : StderrConflict(p, throws)
    \/ \E p \in DOMAIN procs : ExitEvent(p)

SpecPorts == InitSup /\ [][NextPorts]_vars

(***************************************************************************)
(* SpecInst: installLatestLlama on a fresh profile                         *)
(***************************************************************************)
InitInst ==
    /\ InitReg
    /\ files[QwenPath] = "absent"

NextInst ==
    \/ InstallLatestLlama
    \/ \E t \in DOMAIN tasks, tag \in Tags, assets \in {<<>>, <<UbuntuAsset>>} :
           FetchDone(t, tag, assets, FALSE)
    \/ \E t \in DOMAIN tasks : FetchFail(t, FALSE)
    \/ \E t \in DOMAIN tasks : tasks[t].reqs < MaxRequests /\ Redirect(t)
    \/ \E t \in DOMAIN tasks : AssetFail(t, FALSE, FALSE)
    \/ \E t \in DOMAIN tasks : AssetDone(t)
    \/ \E t \in DOMAIN tasks : ExtractFail(t, FALSE)
    \/ \E t \in DOMAIN tasks, b \in {BinaryIn(g) : g \in Tags} : ExtractDone(t, b, FALSE)
    \/ \E t \in DOMAIN tasks : ModelDone(t, FALSE)
    \/ \E t \in DOMAIN tasks : ModelFail(t, FALSE, FALSE)

SpecInst == InitInst /\ [][NextInst]_vars

(***************************************************************************)
(* SpecDisk: installLatestLlama with the application stopping inside       *)
(* writeInstallMetadata, and with files under INSTALL_ROOT removed behind  *)
(* its back                                                                *)
(***************************************************************************)
NextDisk ==
    \/ NextInst
    \/ \E t \in DOMAIN tasks, b \in {BinaryIn(g) : g \in Tags} :
           CrashInWriteInstallMetadata(t, b)
    \/ \E b \in {BinaryIn(g) : g \in Tags} : ExternalDeleteBinary(b)
    \/ ExternalDeleteMetadata

SpecDisk == InitInst /\ [][NextDisk]_vars

(***************************************************************************)
(* SpecBoot: the supervisor from the start of the application, the         *)
(* registry not yet in memory, the built-in weight file there or not, and  *)
(* llama.cpp installed, until the user removes its binary; the network is  *)
(* down for the installer then                                             *)
(***************************************************************************)
InitBoot ==
    /\ cachedState = NullState
    /\ stateFile = AbsentFile
    /\ tmpStateFile = AbsentFile
    /\ pending = <<>>
    /\ wpc = "idle"
    /\ files \in [AllPaths -> {"absent"}] \cup
                 {[p \in AllPaths |-> IF p = QwenPath THEN "full" ELSE "absent"]}
    /\ dls = <<>>
    /\ keptAbsent = TRUE
    /\ lastDownload = NoDownload
    /\ InitSupIdle
    /\ InitInstalled

NextBoot ==
    \/ \E throws \in BOOLEAN : EnsureLlamaServer(throws)
    \/ \E t \in DOMAIN tasks, throws \in BOOLEAN : EnsureModelDone(t, throws)
    \/ \E t \in DOMAIN tasks : EnsureModelFail(t)
    \/ \E t \in DOMAIN tasks, port \in Ports : PortPicked(t, port)
    \/ \E t \in DOMAIN tasks : PortExhausted(t)
    \/ \E throws \in BOOLEAN : StopServer(throws)
    \/ \E p \in DOMAIN procs : ExitEvent(p)
    \/ GetServerStatus
    \/ ExternalDeleteBinary(BinaryIn(LLAMA_VERSION))
    \/ \E t \in DOMAIN tasks : FetchFail(t, FALSE)

SpecBoot == InitBoot /\ [][NextBoot]_vars

(***************************************************************************)
(* SpecArgs: the supervisor while the user selects models and tunes their  *)
(* context window, from a registry in memory with two installed models or  *)
(* from the start of the application                                       *)
(***************************************************************************)
Windows == { [contextWindow |-> Num(4096)] }

NextArgs ==
    \/ \E throws \in BOOLEAN : EnsureLlamaServer(throws)
    \/ \E t \in DOMAIN tasks, throws \in BOOLEAN : EnsureModelDone(t, throws)
    \/ \E t \in DOMAIN tasks : EnsureModelFail(t)
    \/ \E t \in DOMAIN tasks, port \in Ports : PortPicked(t, port)
    \/ \E t \in DOMAIN tasks : PortExhausted(t)
    \/ \E p \in DOMAIN procs : ExitEvent(p)
    \/ \E id \in SupIds : SelectModel(id)
    \/ \E id \in SupIds, params \in Windows : TuneModel(id, params)

InitArgs == InitSup \/ InitBoot

SpecArgs == InitArgs /\ [][NextArgs]_vars

(***************************************************************************)
(* SpecTuned: the supervisor with subprocesses that report port conflicts, *)
(* while the user tunes the context window of the models                   *)
(***************************************************************************)
NextTuned ==
    \/ NextConflict
    \/ \E id \in SupIds, params \in Windows : TuneModel(id, params)

SpecTuned == InitSup /\ [][NextTuned]_vars

(***************************************************************************)
(* SpecAuto: the supervisor with port-conflict restarts, and status        *)
(* queries while no process is recorded and no call waits                  *)
(***************************************************************************)
NextAuto ==
    \/ NextConflict
    \/ tasks = <<>> /\ llamaServerProcess = 0 /\ GetServerStatus

SpecAuto == InitSup /\ [][NextAuto]_vars

(***************************************************************************)
(* SpecFirstRun: ensureLlamaServer calls that install llama.cpp first,     *)
(* while the user selects models; the registry is loaded (the built-in     *)
(* model and one downloaded model installed)                               *)
(***************************************************************************)
InitFirstRun ==
    /\ cachedState = persistState(Upsert(computeInitialState(SupFiles), HfId("X", "m.gguf"),
                                         JoinPath(MODEL_DIR, "m.gguf")))
    /\ stateFile = FullFile(JsonDocument(cachedState))
    /\ tmpStateFile = stateFile
    /\ pending = <<>>
    /\ wpc = "idle"
    /\ files = SupFiles
    /\ dls = <<>>
    /\ keptAbsent = TRUE
    /\ lastDownload = NoDownload
    /\ InitSupIdle
    /\ InitNotInstalled

NextFirstRun ==
    \/ EnsureLlamaServer(FALSE)
    \/ \E t \in DOMAIN tasks : FetchDone(t, LLAMA_VERSION, <<UbuntuAsset>>, FALSE)
    \/ \E t \in DOMAIN tasks : AssetDone(t)
    \/ \E t \in DOMAIN tasks : ExtractDone(t, BinaryIn(LLAMA_VERSION), FALSE)
    \/ \E t \in DOMAIN tasks, port \in Ports : PortPicked(t, port)
    \/ \E p \in DOMAIN procs : ExitEvent(p)
    \/ \E id \in SupIds : SelectModel(id)

SpecFirstRun == InitFirstRun /\ [][NextFirstRun]_vars

(***************************************************************************)
(* SpecShared: downloads from several repositories, one after the other,   *)
(* whose files have the same name, or the name of the default weight file  *)
(***************************************************************************)
\* the { repoId, fileName } options given to downloadHfModel
SharedOptions == { <<"X", "m.gguf">>, <<"Y", "m.gguf">>, <<"X", QWEN_FILE>> }

NextShared ==
  /\ UNCHANGED <<supVars, instVars>>
  /\
    \/ ListModels(FALSE)
    \/ \E o \in SharedOptions : dls = <<>> /\ DownloadBegin(o[1], o[2])
    \/ \E d \in DOMAIN dls : DownloadResponse(d)
    \/ \E d \in DOMAIN dls : DownloadFail(d)
    \/ \E d \in DOMAIN dls : DownloadEnd(d, FALSE)
    \/ Restart

SpecShared == InitReg /\ [][NextShared]_vars

(***************************************************************************)
(* SpecHost: installLatestLlama calls, one after the other, on every host  *)
(* and for every release of at most MaxAssets assets                       *)
(***************************************************************************)
\* release.assets, as the sequence of the names (no two assets of a release have the
\* same name)
Releases ==
    {assets \in UNION {[1..n -> AssetNames] : n \in 0..MaxAssets} :
        \A i, j \in DOMAIN assets : assets[i] = assets[j] => i = j}

InitHost ==
    /\ cachedState = NullState
    /\ stateFile = AbsentFile
    /\ tmpStateFile = AbsentFile
    /\ pending = <<>>
    /\ wpc = "idle"
    /\ files = [p \in AllPaths |-> "absent"]
    /\ dls = <<>>
    /\ keptAbsent = TRUE
    /\ lastDownload = NoDownload
    /\ InitSupIdle
    /\ metadataFile = [st |-> "absent", doc |-> NoMetadata]
    /\ binFiles = {}
    /\ lastInstall = NoInstall
    /\ host \in Hosts

NextHost ==
    \/ tasks = <<>> /\ InstallLatestLlama
    \/ \E t \in DOMAIN tasks, assets \in Releases :
           FetchDone(t, LLAMA_VERSION, assets, FALSE)
    \/ \E t \in DOMAIN tasks : FetchFail(t, FALSE)
    \/ \E t \in DOMAIN tasks, started \in BOOLEAN : AssetFail(t, started, FALSE)
    \/ \E t \in DOMAIN tasks : AssetDone(t)
    \/ \E t \in DOMAIN tasks : ExtractFail(t, FALSE)
    \/ \E t \in DOMAIN tasks : ExtractDone(t, BinaryIn(LLAMA_VERSION), FALSE)
    \/ \E t \in DOMAIN tasks : ModelDone(t, FALSE)
    \/ \E t \in DOMAIN tasks, started \in BOOLEAN : ModelFail(t, started, FALSE)

SpecHost == InitHost /\ [][NextHost]_vars

(***************************************************************************)
(* SpecLog: a server that runs, after it has written about as many lines   *)
(* as the log buffer holds, writes more lines to stdout and stderr         *)
(***************************************************************************)
\* the buffer after n lines of a subprocess spawned at time 1
LoggedLines(n) ==
    [i \in 1..n |-> [timestamp |-> 2,
                     level |-> IF i % 2 = 0 THEN "info" ELSE "error",
                     message |-> ToString(i)]]

\* InitSup, then one ensureLlamaServer call that spawned on port 10000, then the
\* subprocess's first lines
InitLog ==
    /\ cachedState = persistState(Upsert(computeInitialState(SupFiles), HfId("X", "m.gguf"),
                                         JoinPath(MODEL_DIR, "m.gguf")))
    /\ stateFile = FullFile(JsonDocument(cachedState))
    /\ tmpStateFile = stateFile
    /\ pending = <<>>
    /\ wpc = "idle"
    /\ files = SupFiles
    /\ dls = <<>>
    /\ keptAbsent = TRUE
    /\ lastDownload = NoDownload
    /\ InitInstalled
    /\ llamaServerProcess = 1
    /\ llamaServerPort = 10000
    /\ llamaServerCurrentModelPath = ActivePath
    /\ llamaServerStartTime = 1
    /\ procs = <<[port |-> 10000, model |-> ActivePath,
                  ctx |-> OrElse(cachedState.models[getActiveModel(cachedState)]
                                     .currentParams.contextWindow,
                                 Num(DEFAULT_CONTEXT)),
                  binaryPath |-> BinaryIn(LLAMA_VERSION), st |-> "alive",
                  kills |-> 0, by |-> "ensure", from |-> 0]>>
    /\ \E n \in (LOG_BUFFER_SIZE - 2)..LOG_BUFFER_SIZE : llamaLogBuffer = LoggedLines(n)
    /\ tasks = <<>>
    /\ lastEnsure = [n |-> 1, ok |-> TRUE, port |-> 10000, hadProc |-> 0,
                     hadPath |-> NullPath, modelPath |-> ActivePath,
                     overlapped |-> FALSE, spawns |-> 1, spawned |-> 1,
                     pathAfter |-> ActivePath, rejected |-> FALSE]
    /\ quiet = TRUE
    /\ stopped = FALSE
    /\ lastStatus = NoStatus
    /\ prompts = <<>>

NextLog ==
    \E p \in DOMAIN procs, level \in {"info", "error"} : Output(p, level)

SpecLog == InitLog /\ [][NextLog]_vars

(***************************************************************************)
(* SpecBridge: peers send 'prompt' messages, valid or not; the supervisor  *)
(* starts from SpecBoot's initial states; servers exit; every await of a   *)
(* call settles                                                            *)
(***************************************************************************)
\* lines of an HTTP response body, by what the handler looks at: a line without
\* tokens, a content token, a reasoning token with a content token, the same as the
\* last line of the completion, and "data: [DONE]"
Lines ==
    {[reasoning |-> FALSE, content |-> FALSE, done |-> FALSE],
     [reasoning |-> FALSE, content |-> TRUE, done |-> FALSE],
     [reasoning |-> TRUE, content |-> TRUE, done |-> FALSE],
     [reasoning |-> TRUE, content |-> TRUE, done |-> TRUE],
     [reasoning |-> FALSE, content |-> FALSE, done |-> TRUE]}

NextBridge ==
    \/ \E id \in {"", "a"}, prompt \in {"", "hi"} : HandlePromptRequest(id, prompt)
    \/ \E throws \in BOOLEAN : EnsureServerInvoked(throws)
    \/ \E t \in DOMAIN tasks, throws \in BOOLEAN : EnsureModelDone(t, throws)
    \/ \E t \in DOMAIN tasks : EnsureModelFail(t)
    \/ \E t \in DOMAIN tasks, port \in Ports : PortPicked(t, port)
    \/ \E t \in DOMAIN tasks : PortExhausted(t)
    \/ \E p \in DOMAIN procs : ExitEvent(p)
    \/ \E p \in DOMAIN prompts : EnsureServerReturned(p)
    \/ \E p \in DOMAIN prompts : FetchResolved(p)
    \/ \E p \in DOMAIN prompts, doneReading \in BOOLEAN,
          lines \in {<<>>} \cup {<<l>> : l \in Lines} \cup {<<l, m>> : l, m \in Lines} :
           ReaderRead(p, doneReading, lines)
    \/ \E p \in DOMAIN prompts : PromptCatch(p)

SpecBridge == InitBoot /\ [][NextBridge]_vars /\ WF_vars(NextBridge)

(***************************************************************************)
(* SpecRedirect: installLatestLlama and ensureLlamaServer calls on a fresh *)
(* profile, with a server that answers every download request with a      *)
(* redirect; a response that has arrived is handled                        *)
(***************************************************************************)
NextRedirect ==
    \/ InstallLatestLlama
    \/ \E throws \in BOOLEAN : EnsureLlamaServer(throws)
    \/ \E t \in DOMAIN tasks, tag \in Tags, assets \in {<<>>, <<UbuntuAsset>>} :
           FetchDone(t, tag, assets, FALSE)
    \/ \E t \in DOMAIN tasks : FetchFail(t, FALSE)
    \/ \E t \in DOMAIN tasks : Redirect(t)

SpecRedirect == InitInst /\ [][NextRedirect]_vars /\ WF_vars(NextRedirect)

(***************************************************************************)
(* Claims about the registry                                               *)
(***************************************************************************)

\* C1: in every state of the registry, activeModelId is null or is the id of a
\* model of `models` whose installed flag is true (after a first load, after
\* setActiveModel, updateModelParams and downloadHfModel, failed or not).
C1_ActiveIsInstalled ==
    \/ cachedState.activeModelId = NullId
    \/ HasInstalled(cachedState.models, cachedState.activeModelId)

\* C1 witness: a reload healed the pointer: the builtin model was the last one
\* used, its file is gone, and the downloaded model is the active one.
C1_Witness ==
    /\ cachedState.lastUsedModelId = QwenId
    /\ cachedState.activeModelId = HfId("X", "m.gguf")
    /\ \E i \in DOMAIN cachedState.models :
            cachedState.models[i].id = QwenId /\ ~cachedState.models[i].installed

\* The ranges of the runtime parameters, as documented (hundredths for the first two)
DocumentedRange ==
    [temperature |-> <<0, 200>>, topP |-> <<0, 100>>, topK |-> <<0, 2000>>,
     maxTokens |-> <<16, 32768>>, contextWindow |-> <<512, 131072>>,
     gpuLayers |-> <<0, 64>>]

InDocumentedRange(p) ==
    \A k \in ParamKeys :
        /\ k \in DOMAIN p
        /\ p[k].t = "num"
        /\ DocumentedRange[k][1] <= p[k].v
        /\ p[k].v <= DocumentedRange[k][2]

\* C9: every stored parameter of every model, in memory and in models.json, is a
\* number inside its documented range, whatever updateModelParams was given (out of
\* range, NaN, undefined, absent); and a key absent from the partial object keeps
\* the value it had.
C9_ParamsInRange ==
    /\ \A i \in DOMAIN cachedState.models :
            InDocumentedRange(cachedState.models[i].currentParams)
    /\ \A i \in DOMAIN stateFile.doc.models :
            InDocumentedRange(stateFile.doc.models[i].currentParams)
    /\ keptAbsent

\* C9 witness: an update has clamped: temperature sits at its maximum and maxTokens
\* at its minimum, values no input of the model carries.
C9_Witness ==
    /\ cachedState # NullState
    /\ cachedState.models[1].currentParams.temperature = Num(200)
    /\ cachedState.models[1].currentParams.maxTokens = Num(16)
    /\ cachedState.models[1].currentParams.contextWindow = Num(8192)

\* C10: models.json is never a partial document, and it only ever changes by the
\* rename of the completely written temp file: at every step, a crash included, it
\* is the previous document or the complete new one.
C10_AtomicReplace ==
    /\ [](stateFile.st # "partial")
    /\ [][stateFile' # stateFile =>
            /\ wpc = "written"
            /\ tmpStateFile.st = "full"
            /\ stateFile' = FullFile(JsonDocument(Head(pending)))]_vars

\* C10 witness: the application stopped after the temp file was written and before
\* the rename; models.json still holds the previous document.
C10_Witness ==
    /\ cachedState = NullState
    /\ wpc = "idle"
    /\ tmpStateFile.st = "full"
    /\ stateFile.st = "full"
    /\ tmpStateFile.doc # stateFile.doc

(***************************************************************************)
(* Claims about the supervisor                                             *)
(***************************************************************************)
XPath == JoinPath(MODEL_DIR, "m.gguf")

\* C2: when an ensureLlamaServer call returned a server and, since then, the active
\* model did not change, no subprocess was killed or exited and no restart began, the
\* next call to return returns the same port, spawns nothing and leaves the record of
\* the server as it is; and a successful call that began with no server recorded,
\* and ran alone, spawned exactly one subprocess.
C2_SecondCallReuses ==
    /\ [](lastEnsure.ok /\ lastEnsure.hadProc = 0 /\ ~lastEnsure.overlapped
              => lastEnsure.spawns = 1)
    /\ [][(lastEnsure.ok /\ quiet /\ lastEnsure'.n = lastEnsure.n + 1)
              => /\ lastEnsure'.ok
                 /\ lastEnsure'.port = lastEnsure.port
                 /\ lastEnsure'.spawns = 0
                 /\ procs' = procs
                 /\ llamaServerProcess' = llamaServerProcess
                 /\ llamaServerPort' = llamaServerPort
                 /\ llamaServerCurrentModelPath' = llamaServerCurrentModelPath
                 /\ llamaServerStartTime' = llamaServerStartTime]_vars

\* two calls returned, the second one found the subprocess of the first
C2_Witness ==
    /\ lastEnsure.n = 2
    /\ lastEnsure.ok
    /\ quiet
    /\ lastEnsure.hadProc = 1
    /\ lastEnsure.spawns = 0
    /\ Len(procs) = 1
    /\ procs[1].st = "alive" /\ procs[1].kills = 0
    /\ llamaServerPort = lastEnsure.port

\* the last call to return ran alone, and began while a subprocess was recorded for
\* another model than the one it resolved
C3_Switch ==
    /\ ~lastEnsure.overlapped
    /\ lastEnsure.hadProc # 0
    /\ lastEnsure.hadPath # NullPath
    /\ lastEnsure.hadPath # lastEnsure.modelPath

\* C3: an ensureLlamaServer call that begins while the server runs for model A and
\* resolves the active model B # A kills the subprocess of A exactly once; when it
\* returns an endpoint it has spawned exactly one subprocess, whose command line
\* names B's file, and B's file is the recorded model path; when it returns an error
\* (no port was found) it has spawned nothing.
C3_SwitchRestarts ==
    C3_Switch =>
        /\ procs[lastEnsure.hadProc].kills = 1
        /\ lastEnsure.ok =>
               /\ lastEnsure.spawns = 1
               /\ lastEnsure.spawned # 0
               /\ procs[lastEnsure.spawned].model = lastEnsure.modelPath
               /\ lastEnsure.pathAfter = lastEnsure.modelPath
        /\ ~lastEnsure.ok => lastEnsure.spawns = 0

C3_Witness ==
    /\ C3_Switch
    /\ lastEnsure.ok
    /\ lastEnsure.hadPath = QwenPath
    /\ procs[lastEnsure.hadProc].model = QwenPath
    /\ cachedState.activeModelId = HfId("X", "m.gguf")
    /\ lastEnsure.modelPath = XPath
    /\ procs[lastEnsure.spawned].model = XPath
    /\ llamaServerCurrentModelPath = XPath

\* C4: while the replacement spawned by a port-conflict restart is alive, was never
\* killed and is the last subprocess spawned, the status reports running = true and
\* the port of the replacement.
C4_ReplacementReported ==
    \A q \in DOMAIN procs :
        (/\ procs[q].by = "restart"
         /\ q = Len(procs)
         /\ procs[q].st = "alive"
         /\ procs[q].kills = 0
         /\ procs[procs[q].from].kills > 0)
        => /\ getLlamaServerStatus.running
           /\ getLlamaServerStatus.port = procs[q].port

\* C5: once the last subprocess spawned has exited (its exit notification was
\* handled and nothing was spawned since), the status reports running = false and
\* port = null.
C5_ExitedNotRunning ==
    (procs # <<>> /\ procs[Len(procs)].st = "exited")
        => /\ ~getLlamaServerStatus.running
           /\ getLlamaServerStatus.port = 0

\* the subprocess that a successful call recorded exited by itself
C5_Witness ==
    /\ procs # <<>>
    /\ procs[Len(procs)].st = "exited"
    /\ procs[Len(procs)].kills = 0
    /\ lastEnsure.ok
    /\ lastEnsure.spawned = Len(procs)

\* C6: whenever the status reports running = false, it reports modelPath = null and
\* uptime = null.
C6_RecordWhole ==
    ~getLlamaServerStatus.running
        => /\ getLlamaServerStatus.modelPath = NullPath
           /\ getLlamaServerStatus.uptime = Undefined

\* C7: when stopLlamaServer has returned, the process handle, the port, the model
\* path and the start time are all null.
C7_StopClears ==
    stopped
        => /\ llamaServerProcess = 0
           /\ llamaServerPort = 0
           /\ llamaServerCurrentModelPath = NullPath
           /\ llamaServerStartTime = 0

(***************************************************************************)
(* Claims about downloads and the active model                             *)
(***************************************************************************)
\* C12: when a downloadHfModel call completes successfully while the registry shows
\* no active model, the model downloaded is installed and is the active model
\* afterwards, whether its id is new or already has an entry.
C12_DownloadActivates ==
    [][\A d \in DOMAIN dls :
          (/\ DownloadEnd(d, FALSE)
           /\ files[DownloadPath(JoinPath(MODEL_DIR, dls[d].fileName))] # "absent"
           /\ cachedState # NullState
           /\ ensureState.state.activeModelId = NullId)
          => /\ HasInstalled(cachedState'.models, HfId(dls[d].repoId, dls[d].fileName))
             /\ cachedState'.activeModelId = HfId(dls[d].repoId, dls[d].fileName)]_vars

\* C13: no entry of the registry is marked installed while the file at its filePath
\* is partially written or still being written, in every interleaving of downloads.
C13_InstalledNeverPartial ==
    cachedState # NullState =>
        \A i \in DOMAIN cachedState.models :
            (cachedState.models[i].installed /\ cachedState.models[i].filePath # NullPath)
                => files[cachedState.models[i].filePath] # "partial"

\* C14: setActiveModel(id) returns { ok: false } with a not-found error when no
\* entry has that id, { ok: false } with a not-installed error when the entry is not
\* installed, and both times leaves the active model as it was; otherwise it returns
\* ok: true with activeModelId = id and activeModelId and lastUsedModelId are id.
C14_SetActiveResult ==
    [][\A id \in RegIds :
          SetActiveModel(id, FALSE) =>
              LET s == ensureState.state
                  r == setActiveModelResult(s, id)
              IN IF \A i \in DOMAIN s.models : s.models[i].id # id
                 THEN /\ ~r.ok /\ r.error = "Model not found"
                      /\ cachedState' = s
                 ELSE IF ~HasInstalled(s.models, id)
                 THEN /\ ~r.ok /\ r.error = "Model not installed"
                      /\ cachedState' = s
                 ELSE /\ r.ok /\ r.activeModelId = id
                      /\ cachedState'.activeModelId = id
                      /\ cachedState'.lastUsedModelId = id]_vars

\* the downloaded model is active although the built-in model is installed: only
\* setActiveModel puts it there
C14_Witness ==
    /\ cachedState # NullState
    /\ cachedState.activeModelId = HfId("X", "m.gguf")
    /\ cachedState.lastUsedModelId = HfId("X", "m.gguf")
    /\ HasInstalled(cachedState.models, QwenId)
    /\ setActiveModelResult(cachedState, HfId("X", "m.gguf")).ok
    /\ ~setActiveModelResult(cachedState, UnknownId).ok

(***************************************************************************)
(* Claims about the installer                                              *)
(***************************************************************************)
\* C8: an installLatestLlama call that begins after a call returned a success whose
\* binary and metadata are still on disk sends no HTTP request and returns the
\* status of that call.
C8_SecondInstallOffline ==
    (lastInstall.returned /\ lastInstall.prev.installed)
        => /\ lastInstall.reqs = 0
           /\ lastInstall.status = lastInstall.prev

\* C11: install.json is replaced atomically: at every moment, a crash included, the
\* file is absent or holds one complete document, never a part of one.
C11_MetadataAtomic ==
    metadataFile.st \in {"absent", "full"}

\* C17: getLlamaInstallStatus reports installed = true only if the metadata can be
\* read and parsed and the binary it names exists at that moment; with the metadata
\* missing or unparsable, or the binary gone, it answers { installed: false }.
C17_StatusChecksDisk ==
    /\ getLlamaInstallStatus.installed
           => /\ metadataFile.st = "full"
              /\ getLlamaInstallStatus.binaryPath = metadataFile.doc.binaryPath
              /\ getLlamaInstallStatus.binaryPath \in binFiles
    /\ (metadataFile.st # "full" \/ metadataFile.doc.binaryPath \notin binFiles)
           => getLlamaInstallStatus = NotInstalled

\* an install succeeded, then its binary was removed (or its metadata cut short)
C17_Witness ==
    /\ lastInstall.returned /\ lastInstall.status.installed
    /\ \/ metadataFile.st = "full" /\ metadataFile.doc.binaryPath \notin binFiles
       \/ metadataFile.st = "partial" /\ metadataFile.doc.binaryPath \in binFiles
    /\ ~getLlamaInstallStatus.installed

(***************************************************************************)
(* Claims about the supervisor from application start                      *)
(***************************************************************************)
\* C15: the promise of ensureLlamaServer never rejects: every failure, the failed
\* download of the default model included, is returned as { ok: false, error }.
C15_EnsureNeverRejects ==
    ~lastEnsure.rejected

\* C18: a getLlamaServerStatus call spawns, kills and restarts nothing, leaves the
\* recorded process, port, model path and start time as they are, and reports
\* running = true exactly when a process is recorded.
C18_StatusReadOnly ==
    [][GetServerStatus =>
          /\ UNCHANGED <<llamaServerProcess, llamaServerPort,
                         llamaServerCurrentModelPath, llamaServerStartTime, procs, tasks>>
          /\ lastStatus'.status.running = (llamaServerProcess # 0)
          /\ lastStatus'.status.port = llamaServerPort
          /\ lastStatus'.status.modelPath = llamaServerCurrentModelPath]_vars

\* the status was asked after the server had exited by itself: nothing is recorded
\* as running, the start time of the process that exited is still there
C18_Witness ==
    /\ lastStatus.asked
    /\ ~lastStatus.status.running
    /\ llamaServerProcess = 0
    /\ llamaServerStartTime # 0
    /\ \E p \in DOMAIN procs : procs[p].st = "exited"

(***************************************************************************)
(* Claims about installLatestLlama                                         *)
(***************************************************************************)
C16_Terminal(e) == e \in {"install-complete", "error"}

\* C16: an installLatestLlama call emits exactly one terminal event, install-complete
\* or error, as its last event, and install-complete exactly when it returns
\* installed = true.
C16_OneTerminalEvent ==
    lastInstall.returned =>
        LET events == lastInstall.events IN
        /\ Len(SelectSeq(events, C16_Terminal)) = 1
        /\ C16_Terminal(events[Len(events)])
        /\ (events[Len(events)] = "install-complete") = lastInstall.status.installed

\* a call returned a success after it downloaded the asset and the model
C16_Witness ==
    /\ lastInstall.returned /\ lastInstall.status.installed
    /\ lastInstall.events =
           <<"status", "download-start", "download-progress", "download-complete",
             "download-start", "download-progress", "download-complete",
             "install-complete">>

SupportedHosts ==
    {[platform |-> "win32", arch |-> "x64"], LinuxX64,
     [platform |-> "darwin", arch |-> "arm64"]}

\* C19: on a host other than windows/x64, linux/x64 and macos/arm64, an
\* installLatestLlama call returns an unsupported-platform or
\* unsupported-architecture error, emits an error event, sends no request and
\* downloads nothing.
C19_UnsupportedHost ==
    (lastInstall.returned /\ host \notin SupportedHosts)
        => /\ ~lastInstall.status.installed
           /\ lastInstall.error \in {"Unsupported platform", "Unsupported architecture"}
           /\ lastInstall.events = <<"error">>
           /\ lastInstall.reqs = 0
           /\ binFiles = {}

\* the parts that the name of an asset for the host h holds
C20_Token(h) ==
    CASE h = LinuxX64 -> <<"ubuntu", "vulkan", "x64">>
      [] h = [platform |-> "win32", arch |-> "x64"] -> <<"win", "vulkan", "x64">>
      [] h = [platform |-> "darwin", arch |-> "arm64"] -> <<"macos", "arm64">>
      [] OTHER -> <<>>

\* the places in assets of the names that end with .zip and hold the host's token
C20_Matching(assets) ==
    {i \in DOMAIN assets :
        /\ C20_Token(host) # <<>>
        /\ EndsWithZip(assets[i])
        /\ Includes(assets[i], C20_Token(host))}

C21_LogBufferFifo ==
    /\ [](Len(llamaLogBuffer) <= LOG_BUFFER_SIZE)
    /\ [][\A p \in DOMAIN procs, level \in {"info", "error"} :
            Output(p, level) =>
                LET new == [timestamp |-> Now, level |-> level, message |-> "line"]
                IN llamaLogBuffer' = IF Len(llamaLogBuffer) = LOG_BUFFER_SIZE
                                     THEN Append(Tail(llamaLogBuffer), new)
                                     ELSE Append(llamaLogBuffer, new)]_vars

\* C21 witness: a full buffer took a stdout line and then a stderr line: its two
\* oldest entries are gone, the third is now the oldest, the new lines are the newest.
C21_Witness ==
    /\ Len(llamaLogBuffer) = LOG_BUFFER_SIZE
    /\ llamaLogBuffer[1].message = "3"
    /\ llamaLogBuffer[LOG_BUFFER_SIZE - 2].message = "1000"
    /\ llamaLogBuffer[LOG_BUFFER_SIZE - 1] = [timestamp |-> 2, level |-> "info", message |-> "line"]
    /\ llamaLogBuffer[LOG_BUFFER_SIZE] = [timestamp |-> 2, level |-> "error", message |-> "line"]

(***************************************************************************)
(* Claims about the supervisor and the installer together                  *)
(***************************************************************************)

\* C22: ensureLlamaServer runs the install flow only when there is no valid install:
\* in a step taken while the metadata file names a binary that exists, no call
\* starts to wait for the release or for an asset, and no request is counted.
C22_NoInstallWhenInstalled ==
    [][(metadataFile.st = "full" /\ metadataFile.doc.binaryPath \in binFiles)
       => \A t \in DOMAIN tasks' :
              tasks'[t].pc \in {"fetch", "asset", "extract"}
                  => \E u \in DOMAIN tasks : tasks[u] = tasks'[t]]_vars

\* C22 witness: with the install valid, a second ensureLlamaServer call (the first
\* server has exited) spawned a subprocess of the installed binary.
C22_Witness ==
    /\ metadataFile.st = "full" /\ metadataFile.doc.binaryPath \in binFiles
    /\ lastEnsure.n = 2 /\ lastEnsure.ok /\ lastEnsure.spawned = 2
    /\ procs[2].binaryPath = metadataFile.doc.binaryPath
    /\ tasks = <<>>

(***************************************************************************)
(* Claims about the P2P request bridge                                     *)
(***************************************************************************)

\* the messages sent so far for a prompt are 'start', then tokens, then at most
\* one terminal message ('end' or 'error') as the last one
C23_Ordered(sent) ==
    /\ sent # <<>> => sent[1] = "start"
    /\ \A i \in 2..Len(sent) :
           \/ sent[i] \in {"token", "reasoning_token"}
           \/ sent[i] \in {"end", "error"} /\ i = Len(sent)

C24_FileExists(doc, i) ==
    doc.models[i].filePath # NullPath /\ files[doc.models[i].filePath] # "absent"

\* C24: the first access to the registry that finds a state file sets every model's
\* installed flag to whether its filePath exists, whatever the persisted flag was;
\* a persisted activeModelId that is null or names no model whose file exists is
\* replaced by the first model in list order whose file exists, or by null; and the
\* normalized document is on disk when the access returns.
C24_LoadNormalizes ==
    [][(ListModels(FALSE) /\ stateFile.st = "full") =>
          LET doc == stateFile.doc
              there == {i \in DOMAIN doc.models : C24_FileExists(doc, i)}
              keeps == /\ doc.activeModelId # NullId
                       /\ \E i \in there : doc.models[i].id = doc.activeModelId
          IN /\ DOMAIN cachedState'.models = DOMAIN doc.models
             /\ \A i \in DOMAIN doc.models :
                    /\ cachedState'.models[i].id = doc.models[i].id
                    /\ cachedState'.models[i].installed = (i \in there)
             /\ cachedState'.activeModelId =
                    IF keeps THEN doc.activeModelId
                    ELSE IF there = {} THEN NullId
                    ELSE doc.models[CHOOSE i \in there : \A j \in there : i <= j].id
             /\ stateFile' = FullFile(JsonDocument(cachedState'))]_vars

\* C24 witness: after a first access, the downloaded model, the last one used, is
\* not installed any more because its file is gone; the built-in model, whose file
\* is there, is installed and has become the active one; the document is on disk.
C24_Witness ==
    /\ cachedState # NullState
    /\ Len(cachedState.models) = 2
    /\ cachedState.models[1].installed /\ files[QwenPath] = "full"
    /\ ~cachedState.models[2].installed /\ files[cachedState.models[2].filePath] = "absent"
    /\ cachedState.lastUsedModelId = cachedState.models[2].id
    /\ cachedState.activeModelId = QwenId
    /\ stateFile = FullFile(JsonDocument(cachedState))

(***************************************************************************)
(* Claims about failed operations of the registry                          *)
(***************************************************************************)

\* the registry is, in memory and on disk, what it was before the step; when it
\* was not in memory yet, it is what the first access loads and writes back
C25_Kept ==
    /\ cachedState' = ensureState.state
    /\ IF cachedState # NullState
       THEN stateFile' = stateFile /\ tmpStateFile' = tmpStateFile
       ELSE stateFile' = FullFile(JsonDocument(ensureState.state))

\* C25: a failed operation leaves the registry as it was, in memory and on disk:
\* setActiveModel with an unknown or uninstalled id and updateModelParams with an
\* unknown id return ok:false with an error and keep models, activeModelId and
\* lastUsedModelId; a downloadHfModel call that fails (no repoId, a failed request
\* or stream, a missing temp file) returns ok:false with an error, keeps them too,
\* and its last progress event is an error event.  (A step that does not keep the
\* registry is no failed setActiveModel or updateModelParams call.)
C25_FailedOpKeepsState ==
    [][/\ (lastDownload'.returned /\ ~lastDownload'.ok)
              => /\ UNCHANGED <<cachedState, stateFile, tmpStateFile>>
                 /\ lastDownload'.error # ""
                 /\ lastDownload'.events[Len(lastDownload'.events)] = "error"
       /\ C25_Kept
          \/ /\ \A id \in RegIds :
                    ~setActiveModelResult(ensureState.state, id).ok
                        => ~SetActiveModel(id, FALSE)
             /\ \A params \in RegPartials :
                    IndexOf(ensureState.state.models, UnknownId) = 0
                        => ~UpdateModelParams(UnknownId, params, FALSE)]_vars

\* C25 witness: with the registry in memory and a model active, a download failed
\* while its response streamed: it returned ok:false after an error event.
C25_Witness ==
    /\ cachedState # NullState
    /\ cachedState.activeModelId # NullId
    /\ lastDownload.returned /\ ~lastDownload.ok
    /\ lastDownload.events = <<"download-start", "download-progress", "error">>

(***************************************************************************)
(* Claims about updateModelParams                                          *)
(***************************************************************************)

\* C26: updateModelParams on an existing model, installed or not, changes nothing
\* but that model's currentParams: the keys absent from the argument keep their
\* stored values, the model's other fields and the other models stay as they are,
\* and so do activeModelId and lastUsedModelId; the result is on disk.
C26_UpdateParamsFrame ==
    [][\A params \in RegPartials :
           LET s == ensureState.state
               i == IndexOf(s.models, QwenId)
           IN (i # 0 /\ UpdateModelParams(QwenId, params, FALSE)) =>
                  /\ cachedState'.activeModelId = s.activeModelId
                  /\ cachedState'.lastUsedModelId = s.lastUsedModelId
                  /\ DOMAIN cachedState'.models = DOMAIN s.models
                  /\ \A j \in DOMAIN s.models \ {i} : cachedState'.models[j] = s.models[j]
                  /\ [cachedState'.models[i] EXCEPT !.currentParams = s.models[i].currentParams]
                         = s.models[i]
                  /\ \A k \in ParamKeys \ DOMAIN params :
                         cachedState'.models[i].currentParams[k] = s.models[i].currentParams[k]
                  /\ \E k \in DOMAIN params :
                         cachedState'.models[i].currentParams[k] = clamp(params[k], ParamMin[k], ParamMax[k])
                  /\ stateFile' = FullFile(JsonDocument(cachedState'))]_vars

\* C26 witness: the built-in model is not installed and the downloaded model is the
\* active one; the built-in model's gpuLayers has been set (65, clamped to 64) all
\* the same, and its contextWindow (NaN, clamped to the minimum).
C26_Witness ==
    /\ cachedState # NullState
    /\ Len(cachedState.models) = 2
    /\ ~cachedState.models[1].installed
    /\ cachedState.models[1].currentParams.gpuLayers = Num(64)
    /\ cachedState.models[1].currentParams.contextWindow = Num(512)
    /\ cachedState.models[1].currentParams.temperature = Num(60)
    /\ cachedState.models[2].currentParams = DEFAULT_PARAMS
    /\ cachedState.activeModelId = cachedState.models[2].id

(***************************************************************************)
(* Claims about downloads                                                  *)
(***************************************************************************)

\* C27: a download follows a bounded number of redirects and then fails: against
\* a server that answers every request with a redirect, every download of a
\* binary asset or of the default model ends, so that again and again no call
\* waits for a download.
C27_RedirectsEnd ==
    []<>(\A t \in DOMAIN tasks : tasks[t].pc \notin {"asset", "model", "dlmodel"})

(***************************************************************************)
(* Claims about the choice of the port                                     *)
(***************************************************************************)

\* the start attempt t, which ran alone, ends with its last candidate unavailable
C28_Exhausted(t) ==
    /\ tasks[t].pc = "pickport"
    /\ tasks[t].probes = PORT_ATTEMPTS
    /\ ~tasks[t].overlapped
    /\ Len(tasks) = 1
    /\ tasks' = <<>>

\* C28: a start attempt finds at most PORT_ATTEMPTS candidates unavailable; when an
\* attempt that ran alone has found that many unavailable, it ends without a spawn,
\* the process handle and the port are null, and an ensureLlamaServer call returns
\* ok:false (its promise does not reject).
C28_PortExhaustion ==
    /\ [](\A t \in DOMAIN tasks : tasks[t].probes <= PORT_ATTEMPTS)
    /\ [][\A t \in DOMAIN tasks :
              C28_Exhausted(t) =>
                  /\ procs' = procs
                  /\ llamaServerProcess' = 0
                  /\ llamaServerPort' = 0
                  /\ tasks[t].kind = "ensure" =>
                         /\ lastEnsure'.n = lastEnsure.n + 1
                         /\ ~lastEnsure'.ok
                         /\ lastEnsure'.port = 0
                         /\ lastEnsure'.spawns = 0
                         /\ ~lastEnsure'.rejected
                  /\ tasks[t].kind # "ensure" => lastEnsure' = lastEnsure]_vars

\* the subprocess of a first call exited; a second call, alone, found no port
C28_Witness ==
    /\ lastEnsure.n = 2
    /\ ~lastEnsure.ok
    /\ ~lastEnsure.overlapped
    /\ lastEnsure.spawns = 0
    /\ Len(procs) = 1
    /\ procs[1].st = "exited"
    /\ tasks = <<>>
    /\ llamaServerProcess = 0
    /\ llamaServerPort = 0

(***************************************************************************)
(* Claims about the command line of the subprocess                         *)
(***************************************************************************)

\* the model path and the context size of the claim, for the registry s
C29_Args(s) ==
    LET i == getActiveModel(s)
    IN IF i # 0 /\ s.models[i].installed
       THEN [modelPath |-> s.models[i].filePath,
             ctx |-> s.models[i].currentParams.contextWindow]
       ELSE [modelPath |-> QwenPath, ctx |-> Num(8192)]

\* C29: an ensureLlamaServer call that goes on to wait takes the model path and the
\* context size of the active installed model of the registry at the call, or the
\* path of the default model and 8192 when there is none; the subprocess that a call
\* spawns has the model path and the context size that the call took.
C29_SpawnArgs ==
    /\ [][(Len(tasks') = Len(tasks) + 1 /\ tasks'[Len(tasks')].kind = "ensure")
              => /\ tasks'[Len(tasks')].modelPath = C29_Args(cachedState').modelPath
                 /\ tasks'[Len(tasks')].ctx = C29_Args(cachedState').ctx]_vars
    /\ [][(Len(procs') = Len(procs) + 1 /\ lastEnsure'.n = lastEnsure.n + 1)
              => \E t \in DOMAIN tasks :
                     /\ tasks[t].kind = "ensure"
                     /\ tasks' = RemoveAt(tasks, t)
                     /\ lastEnsure'.spawned = Len(procs')
                     /\ procs'[Len(procs')].model = tasks[t].modelPath
                     /\ procs'[Len(procs')].ctx = tasks[t].ctx
                     /\ lastEnsure'.modelPath = tasks[t].modelPath]_vars

\* the downloaded model, tuned to a context window of 4096 and made the active one,
\* is the model of the subprocess that the last call spawned
C29_Witness ==
    /\ lastEnsure.ok
    /\ lastEnsure.spawned = Len(procs)
    /\ procs[lastEnsure.spawned].by = "ensure"
    /\ procs[lastEnsure.spawned].model = XPath
    /\ procs[lastEnsure.spawned].ctx = Num(4096)
    /\ C29_Args(cachedState) = [modelPath |-> XPath, ctx |-> Num(4096)]

\* C30: the subprocess that a port-conflict restart spawns has the binary, the
\* model path and the context size of the subprocess it replaces.
C30_SameCommandLine ==
    \A q \in DOMAIN procs :
        procs[q].by = "restart"
            => /\ procs[q].binaryPath = procs[procs[q].from].binaryPath
               /\ procs[q].model = procs[procs[q].from].model
               /\ procs[q].ctx = procs[procs[q].from].ctx

(***************************************************************************)
(* Claims about the interleavings of the supervisor                        *)
(***************************************************************************)

\* the restarts that wait for a port
C31_Restarts(ts) == Len(SelectSeq(ts, LAMBDA t : t.kind = "restart"))

\* the last line of the log buffer reports a port conflict
C31_ConflictLogged(log) ==
    log # <<>> /\ log[Len(log)].message = "address already in use"

\* C31: a subprocess is spawned only by an ensureLlamaServer call or a port-conflict
\* restart that waited for a port; a restart begins only in the step that logs a
\* port-conflict line; with no call and no restart waiting, a supervisor without a
\* process stays without one, and the next wait is that of an ensureLlamaServer call
\* or of a restart after a conflict line.
C31_OnlyConflictRestarts ==
    /\ [][Len(procs') # Len(procs)
              => \E t \in DOMAIN tasks :
                     /\ tasks[t].pc = "pickport"
                     /\ tasks[t].kind \in {"ensure", "restart"}
                     /\ tasks' = RemoveAt(tasks, t)
                     /\ Len(procs') = Len(procs) + 1
                     /\ procs'[Len(procs')].by = tasks[t].kind]_vars
    /\ [][C31_Restarts(tasks') > C31_Restarts(tasks)
              => /\ llamaLogBuffer' # llamaLogBuffer
                 /\ C31_ConflictLogged(llamaLogBuffer')]_vars
    /\ [][(tasks = <<>> /\ llamaServerProcess = 0)
              => /\ llamaServerProcess' = 0
                 /\ procs' # procs => Len(procs') = Len(procs)
                 /\ tasks' # <<>>
                        => \/ tasks'[1].kind = "ensure"
                           \/ C31_ConflictLogged(llamaLogBuffer')]_vars

\* the subprocess of a call exited by itself, the status was asked since and reports
\* no server; nothing was spawned, nothing waits
C31_Witness ==
    /\ Len(procs) = 1
    /\ procs[1].st = "exited"
    /\ procs[1].kills = 0
    /\ lastEnsure.ok
    /\ lastEnsure.spawned = 1
    /\ tasks = <<>>
    /\ llamaServerProcess = 0
    /\ lastStatus.asked
    /\ ~lastStatus.status.running

(***************************************************************************)
(* Claims about the order of the steps of installLatestLlama               *)
(***************************************************************************)

\* e comes before f in the sequence of events es
C32_Before(es, e, f) ==
    \E i, j \in DOMAIN es : i < j /\ es[i] = e /\ es[j] = f

\* C32: installLatestLlama writes the install metadata only after the asset's
\* download-complete event; it starts the download of the default model only in
\* the step that has written the metadata (of its release and binary); and when it
\* has emitted install-complete, as its last event and after download-complete, the
\* metadata is written whole and the default model file is at its final path.
C32_Pipeline ==
    /\ [][metadataFile' # metadataFile
              => \E t \in DOMAIN tasks :
                     /\ tasks[t].pc = "extract"
                     /\ C32_Before(tasks[t].events, "download-start", "download-complete")
                     /\ metadataFile'.st = "full"
                     /\ metadataFile'.doc.version = tasks[t].tag]_vars
    /\ [][\A t \in DOMAIN tasks :
              (Len(tasks') = Len(tasks) /\ tasks[t].pc # "model" /\ tasks'[t].pc = "model")
                  => /\ tasks[t].pc = "extract"
                     /\ metadataFile' = [st |-> "full",
                                         doc |-> [version |-> tasks'[t].tag,
                                                  binaryPath |-> tasks'[t].binaryPath]]
                     /\ files[QwenPath] = "absent"]_vars
    /\ [][(lastInstall' # lastInstall /\ lastInstall'.status.installed)
              => /\ metadataFile'.st = "full"
                 /\ files'[QwenPath] = "full"
                 /\ lastInstall'.events[Len(lastInstall'.events)] = "install-complete"
                 /\ C32_Before(lastInstall'.events, "download-complete",
                               "install-complete")]_vars
    /\ [](\A t \in DOMAIN tasks : tasks[t].pc = "model" => metadataFile.st = "full")

\* a call went through both downloads and returned installed
C32_Witness ==
    /\ lastInstall.returned
    /\ lastInstall.status.installed
    /\ lastInstall.events = <<"status",
                              "download-start", "download-progress", "download-complete",
                              "download-start", "download-progress", "download-complete",
                              "install-complete">>
    /\ metadataFile.st = "full"
    /\ metadataFile.doc.version = lastInstall.status.version
    /\ files[QwenPath] = "full"

(***************************************************************************)
(* Claims about the registry on disk                                       *)
(***************************************************************************)

\* C33: whenever the registry is in memory and no write is under way, models.json
\* is a whole file whose document is the registry in memory: the same models with
\* the same flags and parameters, the same activeModelId and lastUsedModelId.
C33_DiskEqualsMemory ==
    (cachedState # NullState /\ Idle)
        => /\ stateFile.st = "full"
           /\ stateFile.doc = cachedState
           /\ tmpStateFile.st = "absent"

\* a model was downloaded and selected, the built-in model tuned: both are on disk
C33_Witness ==
    /\ cachedState # NullState
    /\ Idle
    /\ Len(cachedState.models) = 2
    /\ cachedState.activeModelId = HfId("X", "m.gguf")
    /\ cachedState.models[1].currentParams.gpuLayers = Num(64)
    /\ stateFile.doc.activeModelId = HfId("X", "m.gguf")
    /\ stateFile.doc.models[1].currentParams.gpuLayers = Num(64)
    /\ stateFile.doc.models[2].installed

\* C34: when the exit notification is handled of a subprocess that was killed and is
\* not the recorded one, while a newer subprocess is recorded, the recorded handle,
\* port, model path and start time stay as they are.
C34_StaleExitIgnored ==
    [][\A p \in DOMAIN procs :
           (/\ procs[p].st # "exited"
            /\ procs'[p].st = "exited"
            /\ procs[p].kills > 0
            /\ llamaServerProcess # 0
            /\ llamaServerProcess # p)
               => /\ llamaServerProcess' = llamaServerProcess
                  /\ llamaServerPort' = llamaServerPort
                  /\ llamaServerCurrentModelPath' = llamaServerCurrentModelPath
                  /\ llamaServerStartTime' = llamaServerStartTime]_vars

\* C35: every subprocess that is alive and was never sent a kill is the recorded
\* one (so there is at most one).
C35_NoOrphan ==
    \A q \in DOMAIN procs :
        (procs[q].st = "alive" /\ procs[q].kills = 0) => llamaServerProcess = q

\* C36: whenever a subprocess is recorded together with a model path, the path is
\* the model of the command line of that subprocess; and an ensureLlamaServer call
\* that returns an endpoint leaves recorded a subprocess on the port returned whose
\* command line names the model that the call resolved.
C36_RecordedPathIsLaunched ==
    /\ []((llamaServerProcess # 0 /\ llamaServerCurrentModelPath # NullPath)
              => procs[llamaServerProcess].model = llamaServerCurrentModelPath)
    /\ [][(lastEnsure'.n = lastEnsure.n + 1 /\ lastEnsure'.ok)
              => /\ llamaServerProcess' # 0
                 /\ procs'[llamaServerProcess'].port = lastEnsure'.port
                 /\ procs'[llamaServerProcess'].model = lastEnsure'.modelPath]_vars

\* C37: whenever the registry is in memory and the default model file is at its
\* final path, the built-in entry that listModels reports is installed and
\* setActiveModel on its id succeeds.
C37_BuiltinSeenInstalled ==
    (cachedState # NullState /\ files[QwenPath] = "full")
        => LET i == IndexOf(cachedState.models, QwenId)
           IN /\ i # 0
              /\ cachedState.models[i].installed
              /\ setActiveModelResult(cachedState, QwenId).ok

\* C38: no two entries of the registry with distinct ids are installed with the
\* same filePath.
C38_NoSharedFile ==
    cachedState # NullState
        => \A i, j \in DOMAIN cachedState.models :
              (/\ cachedState.models[i].id # cachedState.models[j].id
               /\ cachedState.models[i].installed
               /\ cachedState.models[j].installed)
                  => cachedState.models[i].filePath # cachedState.models[j].filePath

\* C39: at the step where installLatestLlama returns to the IPC handler,
\* getLlamaInstallStatus reports installed exactly if the returned value does.
C39_ReturnAgreesWithStatus ==
    [][(\E t \in DOMAIN tasks :
            /\ tasks[t].kind = "install"
            /\ tasks' = RemoveAt(tasks, t)
            /\ lastInstall'.returned)
        => (getLlamaInstallStatus'.installed <=> lastInstall'.status.installed)]_vars

====
